---------------------------- MODULE Spec2Model ----------------------------
(***************************************************************************)
(* Model of the type line engine of the `magic` crate                      *)
(* (src/src/card/type_line.rs, src/src/type_.rs, src/src/macros), of its   *)
(* colour model (src/src/lib.rs) and of its mana symbols and mana costs    *)
(* (src/src/mana.rs and the magic_core crate's src/magic_core/src/mana.rs).*)
(*                                                                         *)
(* Text.  A Rust string is modelled as the sequence of its lexical units:  *)
(* a unit is either one white-space character (SP), one em dash            *)
(* (EM_DASH, U+2014) or a word, i.e. a maximal run of characters that are  *)
(* neither white space nor an em dash.  Every string has exactly one such  *)
(* decomposition, in which no two words are adjacent.  str::split,         *)
(* str::trim, str::split_whitespace and [String]::join are modelled on     *)
(* this representation.                                                    *)
(*                                                                         *)
(* IndexSet.  An indexmap::IndexSet is modelled as a duplicate-free        *)
(* sequence (its iteration order).                                         *)
(*                                                                         *)
(* Colour and mana text.  The strings rendered for a ColorIdentity, a      *)
(* ManaSymbol and a ManaCost hold no white space and no em dash; they are  *)
(* modelled as the sequence of their characters.                           *)
(***************************************************************************)
EXTENDS Naturals, Sequences, FiniteSets, TLC

VARIABLES
    supertypes,   \* TypeLine.supertypes : IndexSet<Supertype>
    types,        \* TypeLine.types      : IndexSet<Type>
    subtypes,     \* TypeLine.subtypes   : IndexSet<Subtype>
    inserted,     \* history: per collection, the elements present in the order of their insertion
    last,         \* history: the last call made, [op, present]
    ret,          \* the value returned by the last is_valid / valid_for / *_iter call
    text,         \* the String last rendered by to_string, or the input handed to parse
    parsed,       \* the Result returned by the last str::parse::<TypeLine>()
    identity,     \* ColorIdentity.0 : u8
    added,        \* history: the colours whose last add / remove call was an add, in the order of these calls
    cost,         \* ManaCost.symbols : Vec<ManaSymbol>
    other_cost,   \* ManaCost.symbols of a second mana cost
    other_line    \* a second TypeLine

vars == <<supertypes, types, subtypes, inserted, last, ret, text, parsed,
          identity, added, cost, other_cost, other_line>>

\* The variables of the type line, and those of the colour identity and the
\* mana cost.
typeLineVars == <<supertypes, types, subtypes, inserted, parsed, other_line>>
colorVars == <<identity, added, cost, other_cost>>

---------------------------------------------------------------------------
(* Bounds of the model *)

\* The largest number of elements (supertypes + types + subtypes) a type line grows to.
MaxParts == 4

\* The largest number of lexical units of an input text handed to the parser.
MaxTextLen == 6

\* The largest number of colours an iterator collected into a ColorIdentity yields.
MaxIter == 2

\* The largest amount of a Generic mana symbol that is rendered and evaluated.
MaxGeneric == 12

\* The largest number of symbols of a mana cost that is rendered, evaluated
\* and permuted.
MaxSymbols == 4

\* The largest number of symbols of each of two mana costs compared with
\* each other.
MaxPairSymbols == 2

\* The largest number of symbols before, and after, a hybrid symbol held in
\* both orders.
MaxAround == 1

\* The largest number of values of each of the three iterators a type line
\* and its reordering are built from.
MaxPairParts == 2

---------------------------------------------------------------------------
(* The closed vocabularies *)

\* enum Type (type_.rs:25-39): the variant identifiers.
Type ==
    { "Artifact", "Conspiracy", "Creature", "Enchantment", "Instant", "Land",
      "Phenomenon", "Plane", "Planeswalker", "Scheme", "Sorcery", "Tribal",
      "Vanguard" }

\* enum Supertype (type_.rs:489-495): the variant identifiers.
Supertype ==
    { "Basic", "Legendary", "Ongoing", "Snow", "World" }

\* enum ArtifactType (type_.rs:76-83): the variant identifiers.
ArtifactType ==
    { "Clue", "Contraption", "Equipment", "Fortification", "Treasure", "Vehicle" }

\* enum EnchantmentType (type_.rs:90-96): the variant identifiers.
EnchantmentType ==
    { "Aura", "Cartouche", "Curse", "Saga", "Shrine" }

\* enum LandType (type_.rs:103-117): the variant identifiers.
LandType ==
    { "Desert", "Forest", "Gate", "Island", "Lair", "Locus", "Mine", "Mountain",
      "Plains", "PowerPlant", "Swamp", "Tower", "Urzas" }

\* enum PlaneswalkerType (type_.rs:124-172): the variant identifiers.
PlaneswalkerType ==
    { "Ajani", "Aminatou", "Angrath", "Arlinn", "Ashiok", "Bolas", "Chandra",
      "Dack", "Daretti", "Domri", "Dovin", "Elspeth", "Estrid", "Freyalise",
      "Garruk", "Gideon", "Huatli", "Jace", "Jaya", "Karn", "Kaya", "Kiora",
      "Koth", "Liliana", "Nahiri", "Narset", "Nissa", "Nixilis", "Ral", "Rowan",
      "Saheeli", "Samut", "Sarkhan", "Sorin", "Tamiyo", "Teferi", "Tezzeret",
      "Tibalt", "Ugin", "Venser", "Vivien", "Vraska", "Will", "Windgrace",
      "Xenagos", "Yanggu", "Yanling" }

\* enum SpellType (type_.rs:179-182): the variant identifiers.
SpellType ==
    { "Arcane", "Trap" }

\* enum CreatureType (type_.rs:189-431): the variant identifiers.
CreatureType ==
    { "Advisor", "Aetherborn", "Ally", "Angel", "Antelope", "Ape", "Archer",
      "Archon", "Artificer", "Assassin", "AssemblyWorker", "Atog", "Aurochs",
      "Avatar", "Azra", "Badger", "Barbarian", "Basilisk", "Bat", "Bear",
      "Beast", "Beeble", "Berserker", "Bird", "Blinkmoth", "Boar", "Bringer",
      "Brushwagg", "Camarid", "Camel", "Caribou", "Carrier", "Cat", "Centaur",
      "Cephalid", "Chimera", "Citizen", "Cleric", "Cockatrice", "Construct",
      "Coward", "Crab", "Crocodile", "Cyclops", "Dauthi", "Demon", "Deserter",
      "Devil", "Dinosaur", "Djinn", "Dragon", "Drake", "Dreadnought", "Drone",
      "Druid", "Dryad", "Dwarf", "Efreet", "Egg", "Elder", "Eldrazi",
      "Elemental", "Elephant", "Elf", "Elk", "Eye", "Faerie", "Ferret", "Fish",
      "Flagbearer", "Fox", "Frog", "Fungus", "Gargoyle", "Germ", "Giant",
      "Gnome", "Goat", "Goblin", "God", "Golem", "Gorgon", "Graveborn",
      "Gremlin", "Griffin", "Hag", "Harpy", "Hellion", "Hippo", "Hippogriff",
      "Homarid", "Homunculus", "Horror", "Horse", "Hound", "Human", "Hydra",
      "Hyena", "Illusion", "Imp", "Incarnation", "Insect", "Jackal",
      "Jellyfish", "Juggernaut", "Kavu", "Kirin", "Kithkin", "Knight", "Kobold",
      "Kor", "Kraken", "Lamia", "Lammasu", "Leech", "Leviathan", "Lhurgoyf",
      "Licid", "Lizard", "Manticore", "Masticore", "Mercenary", "Merfolk",
      "Metathran", "Minion", "Minotaur", "Mole", "Monger", "Mongoose", "Monk",
      "Monkey", "Moonfolk", "Mutant", "Myr", "Mystic", "Naga", "Nautilus",
      "Nephilim", "Nightmare", "Nightstalker", "Ninja", "Noggle", "Nomad",
      "Nymph", "Octopus", "Ogre", "Ooze", "Orb", "Orc", "Orgg", "Ouphe", "Ox",
      "Oyster", "Pangolin", "Pegasus", "Pentavite", "Pest", "Phelddagrif",
      "Phoenix", "Pilot", "Pincher", "Pirate", "Plant", "Praetor", "Prism",
      "Processor", "Rabbit", "Rat", "Rebel", "Reflection", "Rhino", "Rigger",
      "Rogue", "Sable", "Salamander", "Samurai", "Sand", "Saproling", "Satyr",
      "Scarecrow", "Scion", "Scorpion", "Scout", "Serf", "Serpent", "Servo",
      "Shade", "Shaman", "Shapeshifter", "Sheep", "Siren", "Skeleton", "Slith",
      "Sliver", "Slug", "Snake", "Soldier", "Soltari", "Spawn", "Specter",
      "Spellshaper", "Sphinx", "Spider", "Spike", "Spirit", "Splinter",
      "Sponge", "Squid", "Squirrel", "Starfish", "Surrakar", "Survivor",
      "Tetravite", "Thalakos", "Thopter", "Thrull", "Treefolk", "Trilobite",
      "Triskelavite", "Troll", "Turtle", "Unicorn", "Vampire", "Vedalken",
      "Viashino", "Volver", "Wall", "Warrior", "Weird", "Werewolf", "Whale",
      "Wizard", "Wolf", "Wolverine", "Wombat", "Worm", "Wraith", "Wurm", "Yeti",
      "Zombie", "Zubera" }

\* enum PlanarType (type_.rs:438-482): the variant identifiers.
PlanarType ==
    { "Alara", "Arkhos", "Azgol", "Belenon", "BolassMeditationRealm",
      "Dominaria", "Equilor", "Ergamon", "Fabacin", "Innistrad", "Iquatana",
      "Ir", "Kaldheim", "Kamigawa", "Karsus", "Kephalai", "Kinshala",
      "Kolbahan", "Kyneth", "Lorwyn", "Luvion", "Mercadia", "Mirrodin", "Moag",
      "Mongseng", "Muraganda", "NewPhyrexia", "Phyrexia", "Pyrulea", "Rabiah",
      "Rath", "Ravnica", "Regatha", "Segovia", "SerrasRealm", "Shadowmoor",
      "Shandalar", "Ulgrotha", "Valla", "Vryn", "Wildfire", "Xerex", "Zendikar" }
\* enum Subtype (untagged): a value is <<variant, identifier of the inner enum>>.
Subtype ==
    ({"Artifact"} \X ArtifactType) \cup ({"Enchantment"} \X EnchantmentType)
        \cup ({"Land"} \X LandType) \cup ({"Planeswalker"} \X PlaneswalkerType)
        \cup ({"Spell"} \X SpellType) \cup ({"Creature"} \X CreatureType)
        \cup ({"Plane"} \X PlanarType)

---------------------------------------------------------------------------
(* Text *)

\* One white-space character.
SP == " "

\* const EM_DASH: the one-character string U+2014.
EM_DASH == "U+2014"

\* Option<T>: None is the empty sequence, Some(v) the one-element sequence.
None == <<>>
Some(v) == <<v>>
IsSome(o) == Len(o) > 0

\* The textual name serde gives a unit variant: its identifier, or the
\* #[serde(rename = "...")] of it; a name with spaces is several words.
VariantName(v) ==
    CASE v = "PowerPlant" -> <<"Power-Plant">>
      [] v = "Urzas" -> <<"Urza's">>
      [] v = "AssemblyWorker" -> <<"Assembly-Worker">>
      [] v = "BolassMeditationRealm" -> <<"Bolas's", SP, "Meditation", SP, "Realm">>
      [] v = "NewPhyrexia" -> <<"New", SP, "Phyrexia">>
      [] v = "SerrasRealm" -> <<"Serra's", SP, "Realm">>
      [] OTHER -> <<v>>

\* impl_display_with_serialize!: to_string of a value of a unit-variant enum
\* is to_string(self).unwrap(), the serializer's serialize_unit_variant.
EnumToString(v) == VariantName(v)

\* Display of Subtype: the untagged enum serializes its inner value.
SubtypeToString(sub) == EnumToString(sub[2])

\* impl_fromstr_with_deserialize! for a unit-variant enum E: the variant whose
\* name is exactly the string, or an error (None).
ParseEnum(E, s) ==
    IF \E v \in E : VariantName(v) = s
    THEN Some(CHOOSE v \in E : VariantName(v) = s)
    ELSE None

\* FromStr for Subtype: #[serde(untagged)] tries the variants in declaration order.
ParseSubtype(s) ==
    IF IsSome(ParseEnum(ArtifactType, s)) THEN Some(<<"Artifact", ParseEnum(ArtifactType, s)[1]>>)
    ELSE IF IsSome(ParseEnum(EnchantmentType, s)) THEN Some(<<"Enchantment", ParseEnum(EnchantmentType, s)[1]>>)
    ELSE IF IsSome(ParseEnum(LandType, s)) THEN Some(<<"Land", ParseEnum(LandType, s)[1]>>)
    ELSE IF IsSome(ParseEnum(PlaneswalkerType, s)) THEN Some(<<"Planeswalker", ParseEnum(PlaneswalkerType, s)[1]>>)
    ELSE IF IsSome(ParseEnum(SpellType, s)) THEN Some(<<"Spell", ParseEnum(SpellType, s)[1]>>)
    ELSE IF IsSome(ParseEnum(CreatureType, s)) THEN Some(<<"Creature", ParseEnum(CreatureType, s)[1]>>)
    ELSE IF IsSome(ParseEnum(PlanarType, s)) THEN Some(<<"Plane", ParseEnum(PlanarType, s)[1]>>)
    ELSE None

\* A split at the first em dash only: the rest of the text is one segment.
SplitOnce(s) ==
    IF \E i \in DOMAIN s : s[i] = EM_DASH
    THEN LET i == CHOOSE k \in DOMAIN s : s[k] = EM_DASH /\ \A j \in 1..(k - 1) : s[j] # EM_DASH
         IN  <<SubSeq(s, 1, i - 1), SubSeq(s, i + 1, Len(s))>>
    ELSE <<s>>

\* str::split(EM_DASH): the segments between the em dashes, at least one.
RECURSIVE Split(_)
Split(s) ==
    IF \E i \in DOMAIN s : s[i] = EM_DASH
    THEN LET i == CHOOSE k \in DOMAIN s : s[k] = EM_DASH /\ \A j \in 1..(k - 1) : s[j] # EM_DASH
         IN  <<SubSeq(s, 1, i - 1)>> \o Split(SubSeq(s, i + 1, Len(s)))
    ELSE <<s>>

\* str::split_whitespace().filter(|s| !s.is_empty()) of a segment without em
\* dash: its words, in order.
SplitWhitespace(s) == SelectSeq(s, LAMBDA u : u # SP)

\* str::trim(): without its leading and trailing white space.
RECURSIVE Trim(_)
Trim(s) ==
    IF Len(s) > 0 /\ s[1] = SP THEN Trim(Tail(s))
    ELSE IF Len(s) > 0 /\ s[Len(s)] = SP THEN Trim(SubSeq(s, 1, Len(s) - 1))
    ELSE s

\* [String]::join(sep).
RECURSIVE Join(_, _)
Join(parts, sep) ==
    IF Len(parts) = 0 THEN <<>>
    ELSE IF Len(parts) = 1 THEN parts[1]
    ELSE parts[1] \o sep \o Join(Tail(parts), sep)

---------------------------------------------------------------------------
(* indexmap::IndexSet *)

\* IndexSet::contains
Contains(set, x) == \E i \in DOMAIN set : set[i] = x

\* An insert that appends without looking for the value.
InsertAlways(set, x) == Append(set, x)

\* IndexSet::insert: appended when absent, untouched when present.
Insert(set, x) == IF Contains(set, x) THEN set ELSE Append(set, x)

\* A remove that drops the last element, whatever the value asked for.
RemoveLast(set, x) == IF Len(set) = 0 THEN set ELSE SubSeq(set, 1, Len(set) - 1)

\* IndexSet::remove is swap_remove: the last element takes the place of the
\* removed one.
Remove(set, x) ==
    IF ~Contains(set, x) THEN set
    ELSE LET i == CHOOSE k \in DOMAIN set : set[k] = x
             n == Len(set)
         IN  SubSeq([set EXCEPT ![i] = set[n]], 1, n - 1)

\* PartialEq of IndexSet: the same length and every value of one in the other.
IndexSetEq(a, b) == Len(a) = Len(b) /\ \A i \in DOMAIN a : Contains(b, a[i])

Range(s) == {s[i] : i \in DOMAIN s}

\* IndexSet::from_iter: the values inserted one after the other.
RECURSIVE IndexSet_from_iter_loop(_, _)
IndexSet_from_iter_loop(set, iter) ==
    IF Len(iter) = 0 THEN set
    ELSE IndexSet_from_iter_loop(Insert(set, Head(iter)), Tail(iter))

IndexSet_from_iter(iter) == IndexSet_from_iter_loop(<<>>, iter)

---------------------------------------------------------------------------
(* TypeLine *)

\* TypeLine::new
new == [supertypes |-> <<>>, types |-> <<>>, subtypes |-> <<>>]

\* TypeLine::add_supertype / add_type / add_subtype
add_supertype(self, supertype) == [self EXCEPT !.supertypes = Insert(@, supertype)]

\* An add_type that puts the type in the place of the types held.
add_type_replacing(self, type_) == [self EXCEPT !.types = <<type_>>]

add_type(self, type_) == [self EXCEPT !.types = Insert(@, type_)]

add_subtype(self, subtype) == [self EXCEPT !.subtypes = Insert(@, subtype)]

\* TypeLine::has_supertype / has_type / has_subtype
has_supertype(self, supertype) == Contains(self.supertypes, supertype)

has_type(self, type_) == Contains(self.types, type_)

has_subtype(self, subtype) == Contains(self.subtypes, subtype)

\* TypeLine::remove_supertype / remove_type / remove_subtype
remove_supertype(self, supertype) == [self EXCEPT !.supertypes = Remove(@, supertype)]

\* A remove_type that also drops the subtypes.
remove_type_and_subtypes(self, type_) ==
    [self EXCEPT !.types = Remove(@, type_), !.subtypes = <<>>]

remove_type(self, type_) == [self EXCEPT !.types = Remove(@, type_)]

remove_subtype(self, subtype) == [self EXCEPT !.subtypes = Remove(@, subtype)]

\* TypeLine::types_iter / subtypes_iter / supertypes_iter, collected.
types_iter(self) == self.types

subtypes_iter(self) == self.subtypes

supertypes_iter(self) == self.supertypes

\* A valid_for that forgets the second type of the two-type rows.
valid_for_one_type(sub, type_) ==
    CASE sub[1] = "Artifact" -> type_ = "Artifact"
      [] sub[1] = "Enchantment" -> type_ = "Enchantment"
      [] sub[1] = "Land" -> type_ = "Land"
      [] sub[1] = "Planeswalker" -> type_ = "Planeswalker"
      [] sub[1] = "Spell" -> type_ = "Instant"
      [] sub[1] = "Creature" -> type_ = "Creature"
      [] sub[1] = "Plane" -> type_ = "Plane"

\* Subtype::valid_for
valid_for(sub, type_) ==
    CASE sub[1] = "Artifact" -> type_ = "Artifact"
      [] sub[1] = "Enchantment" -> type_ = "Enchantment"
      [] sub[1] = "Land" -> type_ = "Land"
      [] sub[1] = "Planeswalker" -> type_ = "Planeswalker"
      [] sub[1] = "Spell" -> type_ = "Instant" \/ type_ = "Sorcery"
      [] sub[1] = "Creature" -> type_ = "Creature" \/ type_ = "Tribal"
      [] sub[1] = "Plane" -> type_ = "Plane"

\* An is_valid that wants every subtype valid for every type.
is_valid_every_type(self) ==
    /\ Len(self.types) # 0
    /\ \A i \in DOMAIN self.subtypes :
           \A j \in DOMAIN self.types : valid_for(self.subtypes[i], self.types[j])

\* TypeLine::is_valid
is_valid(self) ==
    /\ Len(self.types) # 0
    /\ \A i \in DOMAIN subtypes_iter(self) :
           \E j \in DOMAIN types_iter(self) :
               valid_for(subtypes_iter(self)[i], types_iter(self)[j])

\* impl fmt::Display for TypeLine
to_string(self) ==
    LET subtypes_len == IF Len(self.subtypes) > 0 THEN Len(self.subtypes) + 1 ELSE 0
        parts == [i \in DOMAIN self.supertypes |-> EnumToString(self.supertypes[i])]
                     \o [i \in DOMAIN self.types |-> EnumToString(self.types[i])]
                     \o (IF subtypes_len > 0
                         THEN <<<<EM_DASH>>>>
                                  \o [i \in DOMAIN self.subtypes |->
                                          SubtypeToString(self.subtypes[i])]
                         ELSE <<>>)
    IN  Join(parts, <<SP>>)

\* TypeLine::from_iters
from_iters(supertypes_, types_, subtypes_) ==
    [supertypes |-> IndexSet_from_iter(supertypes_),
     types      |-> IndexSet_from_iter(types_),
     subtypes   |-> IndexSet_from_iter(subtypes_)]

\* An equality of type lines that compares the collections as vectors.
TypeLineEq_ordered(a, b) == a = b

\* PartialEq of TypeLine (derived): field by field.
TypeLineEq(a, b) ==
    /\ IndexSetEq(a.supertypes, b.supertypes)
    /\ IndexSetEq(a.types, b.types)
    /\ IndexSetEq(a.subtypes, b.subtypes)

\* Result<TypeLine, TypeLineReadError>, and the abort of an unwrap of None.
Err(variant, token) == [tag |-> "Err", variant |-> variant, token |-> token]
Panic == [tag |-> "Panic"]

\* A parser that returns Ok only for a valid type line.
OkIfValid(line) ==
    IF is_valid(line) THEN [tag |-> "Ok", line |-> line] ELSE Err("ExtraParts", "")

\* Ok(type_line)
Ok(line) == [tag |-> "Ok", line |-> line]

\* parts.next(): the token at position i, if any.
Next_(parts, i) == IF i <= Len(parts) THEN Some(parts[i]) ELSE None

\* The error built with the other variant of TypeLineReadError.
ErrNotAnEmDash(current) ==
    IF IsSome(current) THEN Err("NotAnEmDash", current[1]) ELSE Panic

\* return Err(TypeLineReadError::ExtraParts(current.unwrap().to_string()))
ErrExtraParts(current) ==
    IF IsSome(current) THEN Err("ExtraParts", current[1]) ELSE Panic

\* A supertype loop that consumes one supertype token at most.
ScanSupertypesOnce(parts, i, line) ==
    IF IsSome(Next_(parts, i)) /\ IsSome(ParseEnum(Supertype, <<parts[i]>>))
    THEN [i |-> i + 1, line |-> add_supertype(line, ParseEnum(Supertype, <<parts[i]>>)[1])]
    ELSE [i |-> i, line |-> line]

\* The three `while let Some(c) = current` loops of from_str: from position i
\* on, consume the tokens that parse; [i, line] is where the loop breaks.
RECURSIVE ScanSupertypes(_, _, _)
ScanSupertypes(parts, i, line) ==
    IF IsSome(Next_(parts, i)) /\ IsSome(ParseEnum(Supertype, <<parts[i]>>))
    THEN ScanSupertypes(parts, i + 1, add_supertype(line, ParseEnum(Supertype, <<parts[i]>>)[1]))
    ELSE [i |-> i, line |-> line]

RECURSIVE ScanTypes(_, _, _)
ScanTypes(parts, i, line) ==
    IF IsSome(Next_(parts, i)) /\ IsSome(ParseEnum(Type, <<parts[i]>>))
    THEN ScanTypes(parts, i + 1, add_type(line, ParseEnum(Type, <<parts[i]>>)[1]))
    ELSE [i |-> i, line |-> line]

\* A subtype loop that consumes one subtype token at most.
ScanSubtypesOnce(parts, i, line) ==
    IF IsSome(Next_(parts, i)) /\ IsSome(ParseSubtype(<<parts[i]>>))
    THEN [i |-> i + 1, line |-> add_subtype(line, ParseSubtype(<<parts[i]>>)[1])]
    ELSE [i |-> i, line |-> line]

RECURSIVE ScanSubtypes(_, _, _)
ScanSubtypes(parts, i, line) ==
    IF IsSome(Next_(parts, i)) /\ IsSome(ParseSubtype(<<parts[i]>>))
    THEN ScanSubtypes(parts, i + 1, add_subtype(line, ParseSubtype(<<parts[i]>>)[1]))
    ELSE [i |-> i, line |-> line]

\* A post dash block that parses word by word only.
PostDashByWord(halves, line) ==
    IF Len(halves) < 2 THEN Ok(line)
    ELSE LET parts == SplitWhitespace(Trim(halves[2]))
             scan == ScanSubtypes(parts, 1, line)
         IN  IF IsSome(Next_(parts, scan.i))
             THEN ErrExtraParts(Next_(parts, scan.i))
             ELSE Ok(scan.line)

\* from_str, the post dash block, on the type line the pre dash block built.
PostDash(halves, line) ==
    IF Len(halves) < 2 THEN Ok(line)
    ELSE LET post_dash == Trim(halves[2])
         IN  IF IsSome(ParseSubtype(post_dash))
             THEN Ok(add_subtype(line, ParseSubtype(post_dash)[1]))
             ELSE LET parts == SplitWhitespace(post_dash)
                      scan == ScanSubtypes(parts, 1, line)
                  IN  IF IsSome(Next_(parts, scan.i))
                      THEN ErrExtraParts(Next_(parts, scan.i))
                      ELSE Ok(scan.line)

\* impl FromStr for TypeLine
from_str(s) ==
    LET halves == Split(s)
        parts == SplitWhitespace(IF Len(halves) > 0 THEN halves[1] ELSE <<>>)
        sup == ScanSupertypes(parts, 1, new)
        typ == ScanTypes(parts, sup.i, sup.line)
    IN  IF IsSome(Next_(parts, typ.i))
        THEN ErrExtraParts(Next_(parts, typ.i))
        ELSE PostDash(halves, typ.line)

---------------------------------------------------------------------------
(* Color *)

\* enum Color
Color == {"White", "Blue", "Black", "Red", "Green"}

\* color as u8: the ordinal of the variant
as_u8(color) ==
    CASE color = "White" -> 0
      [] color = "Blue"  -> 1
      [] color = "Black" -> 2
      [] color = "Red"   -> 3
      [] color = "Green" -> 4

\* Color::iterator(): the COLORS array, in its order
iterator == <<"White", "Blue", "Black", "Red", "Green">>

\* u8 arithmetic
U8 == 256
Sub8(a, b) == (a + U8 - b) % U8
Shl8(a, n) == (a * (2 ^ n)) % U8
Not8(a) == (U8 - 1) - a

RECURSIVE BitAnd8n(_, _, _)
BitAnd8n(a, b, n) ==
    IF n = 0 THEN 0
    ELSE (a % 2) * (b % 2) + 2 * BitAnd8n(a \div 2, b \div 2, n - 1)

BitAnd8(a, b) == BitAnd8n(a, b, 8)
BitOr8(a, b) == Not8(BitAnd8(Not8(a), Not8(b)))

RECURSIVE trailing_zeros_n(_, _)
trailing_zeros_n(a, n) ==
    IF n = 0 THEN 0
    ELSE IF a % 2 = 1 THEN 0
    ELSE 1 + trailing_zeros_n(a \div 2, n - 1)

\* u8::trailing_zeros
trailing_zeros(a) == trailing_zeros_n(a, 8)

\* color_pie_order without the swap of a descending pair
color_pie_order_as_given(color1, color2) ==
    LET c == <<as_u8(color1), as_u8(color2)>> IN
    IF c[1] <= c[2] /\ Sub8(c[2], c[1]) > 2 THEN <<color2, color1>>
    ELSE <<color1, color2>>

\* color_pie_order without the reversal of a distant pair
color_pie_order_ordinal(color1, color2) ==
    IF as_u8(color1) > as_u8(color2) THEN <<color2, color1>>
    ELSE <<color1, color2>>

\* Color::color_pie_order
RECURSIVE color_pie_order(_, _)
color_pie_order(color1, color2) ==
    LET c == <<as_u8(color1), as_u8(color2)>> IN
    IF c[1] > c[2] THEN color_pie_order(color2, color1)
    ELSE IF Sub8(c[2], c[1]) > 2 THEN <<color2, color1>>
    ELSE <<color1, color2>>

\* Color::initial
initial(color) ==
    CASE color = "White" -> "W"
      [] color = "Blue"  -> "U"
      [] color = "Black" -> "B"
      [] color = "Red"   -> "R"
      [] color = "Green" -> "G"

---------------------------------------------------------------------------
(* ColorIdentity: the tuple struct ColorIdentity(u8) is modelled by its u8 *)

\* ColorIdentity::new
ColorIdentity_new == 0

\* ColorIdentity::is_colorless
is_colorless(self) == trailing_zeros(self) >= 5

\* ColorIdentity::has
has(self, color) == BitAnd8(self, Shl8(1, as_u8(color))) # 0

\* ColorIdentity::add that clears the other colours
add_only(self, color) == Shl8(1, as_u8(color))

\* ColorIdentity::add that sets the bit above the colour's own
add_shifted(self, color) == BitOr8(self, Shl8(1, as_u8(color) + 1))

\* ColorIdentity::add
add(self, color) == BitOr8(self, Shl8(1, as_u8(color)))

\* ColorIdentity::remove
remove(self, color) == BitAnd8(self, Not8(Shl8(1, as_u8(color))))

\* ColorIdentity::colors that yields the colours in descending ordinal order
colors_reversed(self) ==
    SelectSeq([i \in 1..Len(iterator) |-> iterator[Len(iterator) + 1 - i]],
              LAMBDA c : has(self, c))

\* ColorIdentity::colors
colors(self) == SelectSeq(iterator, LAMBDA c : has(self, c))

\* <ColorIdentity as FromIterator<Color>>::from_iter
RECURSIVE ColorIdentity_from_iter_loop(_, _)
ColorIdentity_from_iter_loop(res, iter) ==
    IF Len(iter) = 0 THEN res
    ELSE ColorIdentity_from_iter_loop(add(res, Head(iter)), Tail(iter))

ColorIdentity_from_iter(iter) == ColorIdentity_from_iter_loop(ColorIdentity_new, iter)

\* <ColorIdentity as Display>::fmt, through to_string
ColorIdentity_to_string(self) ==
    IF is_colorless(self) THEN <<"C">>
    ELSE LET cs == colors(self) IN [i \in 1..Len(cs) |-> initial(cs[i])]

---------------------------------------------------------------------------
(* ManaSymbol.  A symbol is modelled as a record of its variant and the    *)
(* variant's fields; a field the variant does not have holds NoField or 0. *)
(* The `magic` crate writes the variants Colored(c) and Colorless of the   *)
(* magic_core crate Color(Some(c)) and Color(None).  A Generic amount is a *)
(* usize (u16 in magic_core); the amounts of the model stay far below      *)
(* both widths.                                                            *)

NoField == "-"

\* enum ManaSymbol
Generic(n) == [kind |-> "Generic", n |-> n, c1 |-> NoField, c2 |-> NoField]
Colored(c) == [kind |-> "Colored", n |-> 0, c1 |-> c, c2 |-> NoField]
Colorless == [kind |-> "Colorless", n |-> 0, c1 |-> NoField, c2 |-> NoField]
Variable == [kind |-> "Variable", n |-> 0, c1 |-> NoField, c2 |-> NoField]
Hybrid(c1, c2) == [kind |-> "Hybrid", n |-> 0, c1 |-> c1, c2 |-> c2]
MonoHybrid(c) == [kind |-> "MonoHybrid", n |-> 0, c1 |-> c, c2 |-> NoField]
Phyrexian(c) == [kind |-> "Phyrexian", n |-> 0, c1 |-> c, c2 |-> NoField]
Snow == [kind |-> "Snow", n |-> 0, c1 |-> NoField, c2 |-> NoField]

\* ManaSymbol::hybrid that keeps the two colours in the order given
hybrid_as_given(color1, color2) == Hybrid(color1, color2)

\* ManaSymbol::hybrid
hybrid(color1, color2) ==
    LET p == color_pie_order(color1, color2) IN Hybrid(p[1], p[2])

\* The decimal digits of usize::to_string
Digit(d) == <<"0", "1", "2", "3", "4", "5", "6", "7", "8", "9">>[d + 1]

RECURSIVE Decimal(_)
Decimal(n) == IF n < 10 THEN <<Digit(n)>> ELSE Decimal(n \div 10) \o <<Digit(n % 10)>>

\* <Color as Display>::fmt of the magic_core crate
Color_to_string(color) == <<initial(color)>>

\* <ManaSymbol as Display>::fmt of the magic_core crate, through to_string
core_ManaSymbol_to_string(self) ==
    <<"{">> \o
    (CASE self.kind = "Generic"    -> Decimal(self.n)
       [] self.kind = "Colored"    -> Color_to_string(self.c1)
       [] self.kind = "Colorless"  -> <<"C">>
       [] self.kind = "Variable"   -> <<"X">>
       [] self.kind = "Hybrid"     ->
              LET p == color_pie_order(self.c1, self.c2) IN
              Color_to_string(p[1]) \o <<"/">> \o Color_to_string(p[2])
       [] self.kind = "MonoHybrid" -> Color_to_string(self.c1) \o <<"/", "2">>
       [] self.kind = "Phyrexian"  -> Color_to_string(self.c1) \o <<"/", "P">>
       [] self.kind = "Snow"       -> <<"S">>)
    \o <<"}">>

\* <ManaSymbol as Display>::fmt of the magic crate, through to_string
ManaSymbol_to_string(self) ==
    <<"{">> \o
    (CASE self.kind = "Generic"    -> Decimal(self.n)
       [] self.kind = "Colored"    -> <<initial(self.c1)>>
       [] self.kind = "Colorless"  -> <<"C">>
       [] self.kind = "Variable"   -> <<"X">>
       [] self.kind = "Hybrid"     -> <<initial(self.c1), "/", initial(self.c2)>>
       [] self.kind = "MonoHybrid" -> <<initial(self.c1), "/", "2">>
       [] self.kind = "Phyrexian"  -> <<initial(self.c1), "/", "P">>
       [] self.kind = "Snow"       -> <<"S">>)
    \o <<"}">>

\* converted_mana_cost of a symbol that counts a MonoHybrid symbol as 1
ManaSymbol_converted_mana_cost_one(self) ==
    IF self.kind = "Generic" THEN self.n
    ELSE IF self.kind = "Variable" THEN 0
    ELSE 1

\* <ManaSymbol as ConvertedManaCost>::converted_mana_cost
ManaSymbol_converted_mana_cost(self) ==
    CASE self.kind = "Generic"    -> self.n
      [] self.kind = "Colored"    -> 1
      [] self.kind = "Colorless"  -> 1
      [] self.kind = "Variable"   -> 0
      [] self.kind = "Hybrid"     -> 1
      [] self.kind = "MonoHybrid" -> 2
      [] self.kind = "Phyrexian"  -> 1
      [] self.kind = "Snow"       -> 1

---------------------------------------------------------------------------
(* ManaCost: the struct is modelled by its field symbols, a sequence *)

\* <ManaCost as FromIterator<ManaSymbol>>::from_iter
ManaCost_from_iter(iter) == iter

\* *map.entry(key).or_insert(0) += 1 on a HashMap, modelled as a function
\* on the keys it holds
Entry_or_insert_add(map, key) ==
    IF key \in DOMAIN map THEN [map EXCEPT ![key] = @ + 1]
    ELSE [k \in DOMAIN map \cup {key} |-> IF k = key THEN 0 + 1 ELSE map[k]]

\* HashMap::default
EmptyMap == [k \in {} |-> 0]

\* ManaCostComparator { ..Default::default() }
ManaCostComparator_default ==
    [generic |-> 0, variable |-> 0, snow |-> 0,
     colors |-> EmptyMap, hybrids |-> EmptyMap, phyrexian |-> EmptyMap]

\* A turn of the loop that counts a hybrid symbol under the colours as held
ManaCostComparator_step_as_held(res, symbol) ==
    CASE symbol.kind = "Generic"    -> [res EXCEPT !.generic = @ + symbol.n]
      [] symbol.kind = "Colored"    ->
             [res EXCEPT !.colors = Entry_or_insert_add(@, Some(symbol.c1))]
      [] symbol.kind = "Colorless"  ->
             [res EXCEPT !.colors = Entry_or_insert_add(@, None)]
      [] symbol.kind = "Variable"   -> [res EXCEPT !.variable = @ + 1]
      [] symbol.kind = "Hybrid"     ->
             [res EXCEPT !.hybrids = Entry_or_insert_add(@, <<symbol.c1, Some(symbol.c2)>>)]
      [] symbol.kind = "MonoHybrid" ->
             [res EXCEPT !.hybrids = Entry_or_insert_add(@, <<symbol.c1, None>>)]
      [] symbol.kind = "Phyrexian"  ->
             [res EXCEPT !.phyrexian = Entry_or_insert_add(@, symbol.c1)]
      [] symbol.kind = "Snow"       -> [res EXCEPT !.snow = @ + 1]

\* A turn of the loop that counts the generic symbols, not their amounts
ManaCostComparator_step_generic_count(res, symbol) ==
    CASE symbol.kind = "Generic"    -> [res EXCEPT !.generic = @ + 1]
      [] symbol.kind = "Colored"    ->
             [res EXCEPT !.colors = Entry_or_insert_add(@, Some(symbol.c1))]
      [] symbol.kind = "Colorless"  ->
             [res EXCEPT !.colors = Entry_or_insert_add(@, None)]
      [] symbol.kind = "Variable"   -> [res EXCEPT !.variable = @ + 1]
      [] symbol.kind = "Hybrid"     ->
             LET p == color_pie_order(symbol.c1, symbol.c2) IN
             [res EXCEPT !.hybrids = Entry_or_insert_add(@, <<p[1], Some(p[2])>>)]
      [] symbol.kind = "MonoHybrid" ->
             [res EXCEPT !.hybrids = Entry_or_insert_add(@, <<symbol.c1, None>>)]
      [] symbol.kind = "Phyrexian"  ->
             [res EXCEPT !.phyrexian = Entry_or_insert_add(@, symbol.c1)]
      [] symbol.kind = "Snow"       -> [res EXCEPT !.snow = @ + 1]

\* ManaCostComparator::new: one turn of the loop over the symbols
ManaCostComparator_step(res, symbol) ==
    CASE symbol.kind = "Generic"    -> [res EXCEPT !.generic = @ + symbol.n]
      [] symbol.kind = "Colored"    ->
             [res EXCEPT !.colors = Entry_or_insert_add(@, Some(symbol.c1))]
      [] symbol.kind = "Colorless"  ->
             [res EXCEPT !.colors = Entry_or_insert_add(@, None)]
      [] symbol.kind = "Variable"   -> [res EXCEPT !.variable = @ + 1]
      [] symbol.kind = "Hybrid"     ->
             LET p == color_pie_order(symbol.c1, symbol.c2) IN
             [res EXCEPT !.hybrids = Entry_or_insert_add(@, <<p[1], Some(p[2])>>)]
      [] symbol.kind = "MonoHybrid" ->
             [res EXCEPT !.hybrids = Entry_or_insert_add(@, <<symbol.c1, None>>)]
      [] symbol.kind = "Phyrexian"  ->
             [res EXCEPT !.phyrexian = Entry_or_insert_add(@, symbol.c1)]
      [] symbol.kind = "Snow"       -> [res EXCEPT !.snow = @ + 1]

RECURSIVE ManaCostComparator_loop(_, _)
ManaCostComparator_loop(res, symbols) ==
    IF Len(symbols) = 0 THEN res
    ELSE ManaCostComparator_loop(ManaCostComparator_step(res, Head(symbols)), Tail(symbols))

\* ManaCostComparator::new that skips the first symbol
ManaCostComparator_new_tail(mana_cost) ==
    IF Len(mana_cost) = 0 THEN ManaCostComparator_default
    ELSE ManaCostComparator_loop(ManaCostComparator_default, Tail(mana_cost))

\* ManaCostComparator::new
ManaCostComparator_new(mana_cost) ==
    ManaCostComparator_loop(ManaCostComparator_default, mana_cost)

\* equality of the symbol vectors
ManaCost_eq_symbols(self, other) == self = other

\* <ManaCost as PartialEq>::eq
ManaCost_eq(self, other) == ManaCostComparator_new(self) = ManaCostComparator_new(other)

\* String::from_iter over the strings of an iterator
RECURSIVE String_from_iter(_)
String_from_iter(strings) ==
    IF Len(strings) = 0 THEN <<>>
    ELSE Head(strings) \o String_from_iter(Tail(strings))

\* ManaCost rendering that puts the symbols in the opposite order
ManaCost_to_string_reversed(self) ==
    String_from_iter([i \in 1..Len(self) |-> ManaSymbol_to_string(self[Len(self) + 1 - i])])

\* <ManaCost as Display>::fmt of the magic crate, through to_string
ManaCost_to_string(self) ==
    String_from_iter([i \in 1..Len(self) |-> ManaSymbol_to_string(self[i])])

\* <ManaCost as Display>::fmt of the magic_core crate, through to_string
core_ManaCost_to_string(self) ==
    String_from_iter([i \in 1..Len(self) |-> core_ManaSymbol_to_string(self[i])])

\* Iterator::sum over usize
RECURSIVE Sum(_)
Sum(values) == IF Len(values) = 0 THEN 0 ELSE Head(values) + Sum(Tail(values))

\* converted_mana_cost of a cost that counts its symbols
ManaCost_converted_mana_cost_len(self) == Len(self)

\* <ManaCost as ConvertedManaCost>::converted_mana_cost
ManaCost_converted_mana_cost(self) ==
    Sum([i \in 1..Len(self) |-> ManaSymbol_converted_mana_cost(self[i])])

---------------------------------------------------------------------------
(* The values the calls are made with *)

SupertypeSample == {"Legendary", "Snow"}

TypeSample == {"Artifact", "Creature", "Plane", "Tribal"}

SubtypeSample ==
    { <<"Creature", "Human">>, <<"Artifact", "Equipment">>,
      <<"Plane", "NewPhyrexia">>, <<"Plane", "Phyrexia">> }

\* The words of the input texts: a supertype, two types, a subtype, and the
\* two words of "New Phyrexia", of which "New" alone names nothing.
InputWords == {"Legendary", "Artifact", "Creature", "Human", "New", "Phyrexia"}

\* Every text of at most n units: no two words are adjacent (a word is a
\* maximal run of characters).
RECURSIVE TextsOfLen(_)
TextsOfLen(n) ==
    IF n = 0 THEN {<<>>}
    ELSE {Append(s, u) : s \in TextsOfLen(n - 1), u \in {SP, EM_DASH}}
         \cup {Append(s, w) : s \in {p \in TextsOfLen(n - 1) :
                                        Len(p) = 0 \/ p[Len(p)] \in {SP, EM_DASH}},
                              w \in InputWords}

InputTexts == UNION {TextsOfLen(n) : n \in 0..MaxTextLen}

---------------------------------------------------------------------------
(* The state machine: one type line and the calls made on it *)

Self == [supertypes |-> supertypes, types |-> types, subtypes |-> subtypes]

Size == Len(supertypes) + Len(types) + Len(subtypes)

Called(op, present) == [op |-> op, present |-> present]

\* The insertion history of one collection.
HistAdd(h, x) == IF x \in Range(h) THEN h ELSE Append(h, x)
HistDel(h, x) == SelectSeq(h, LAMBDA e : e # x)

\* A &mut self call: the type line becomes t; the values returned by earlier
\* calls are dropped.
Mutated(t, op, present, ins) ==
    /\ supertypes' = t.supertypes
    /\ types' = t.types
    /\ subtypes' = t.subtypes
    /\ inserted' = ins
    /\ last' = Called(op, present)
    /\ ret' = None
    /\ text' = None
    /\ parsed' = None
    /\ UNCHANGED other_line
    /\ UNCHANGED colorVars

\* No colour identity and no mana cost is in use.
NoColors ==
    /\ identity = ColorIdentity_new
    /\ added = <<>>
    /\ cost = <<>>
    /\ other_cost = <<>>

Init ==
    /\ supertypes = new.supertypes
    /\ types = new.types
    /\ subtypes = new.subtypes
    /\ inserted = new
    /\ last = Called("new", FALSE)
    /\ ret = None
    /\ text = None
    /\ parsed = None
    /\ other_line = new
    /\ NoColors

Call_add_supertype(x) ==
    /\ Size < MaxParts \/ Contains(supertypes, x)
    /\ Mutated(add_supertype(Self, x), "add_supertype", Contains(supertypes, x),
               [inserted EXCEPT !.supertypes = HistAdd(@, x)])

Call_add_type(x) ==
    /\ Size < MaxParts \/ Contains(types, x)
    /\ Mutated(add_type(Self, x), "add_type", Contains(types, x),
               [inserted EXCEPT !.types = HistAdd(@, x)])

Call_add_subtype(x) ==
    /\ Size < MaxParts \/ Contains(subtypes, x)
    /\ Mutated(add_subtype(Self, x), "add_subtype", Contains(subtypes, x),
               [inserted EXCEPT !.subtypes = HistAdd(@, x)])

Call_remove_supertype(x) ==
    Mutated(remove_supertype(Self, x), "remove_supertype", Contains(supertypes, x),
            [inserted EXCEPT !.supertypes = HistDel(@, x)])

Call_remove_type(x) ==
    Mutated(remove_type(Self, x), "remove_type", Contains(types, x),
            [inserted EXCEPT !.types = HistDel(@, x)])

Call_remove_subtype(x) ==
    Mutated(remove_subtype(Self, x), "remove_subtype", Contains(subtypes, x),
            [inserted EXCEPT !.subtypes = HistDel(@, x)])

\* A &self call returning v.
Returned(op, v) ==
    /\ last' = Called(op, FALSE)
    /\ ret' = Some(v)
    /\ text' = None
    /\ parsed' = None
    /\ UNCHANGED <<supertypes, types, subtypes, inserted, other_line>>
    /\ UNCHANGED colorVars

Call_has_supertype(x) == Returned("has_supertype", has_supertype(Self, x))

Call_has_type(x) == Returned("has_type", has_type(Self, x))

Call_has_subtype(x) == Returned("has_subtype", has_subtype(Self, x))

Call_is_valid == Returned("is_valid", is_valid(Self))

Call_supertypes_iter == Returned("supertypes_iter", supertypes_iter(Self))

Call_types_iter == Returned("types_iter", types_iter(Self))

Call_subtypes_iter == Returned("subtypes_iter", subtypes_iter(Self))

\* sub.valid_for(ty) on a subtype and a type of the type line.
Call_valid_for ==
    \E i \in DOMAIN subtypes, j \in DOMAIN types :
        Returned("valid_for", valid_for(subtypes[i], types[j]))

\* let s = self.to_string()
Call_to_string ==
    /\ last' = Called("to_string", FALSE)
    /\ text' = Some(to_string(Self))
    /\ ret' = None
    /\ parsed' = None
    /\ UNCHANGED <<supertypes, types, subtypes, inserted, other_line>>
    /\ UNCHANGED colorVars

\* s.parse::<TypeLine>()
Call_from_str ==
    /\ IsSome(text)
    /\ last' = Called("from_str", FALSE)
    /\ parsed' = Some(from_str(text[1]))
    /\ UNCHANGED <<supertypes, types, subtypes, inserted, ret, text, other_line>>
    /\ UNCHANGED colorVars

Next ==
    \/ \E x \in SupertypeSample : Call_add_supertype(x)
    \/ \E x \in TypeSample : Call_add_type(x)
    \/ \E x \in SubtypeSample : Call_add_subtype(x)
    \/ \E x \in SupertypeSample : Call_remove_supertype(x)
    \/ \E x \in TypeSample : Call_remove_type(x)
    \/ \E x \in SubtypeSample : Call_remove_subtype(x)
    \/ Call_is_valid
    \/ Call_supertypes_iter
    \/ Call_types_iter
    \/ Call_subtypes_iter
    \/ Call_to_string
    \/ Call_from_str

\* A type line and the calls made on it.
Spec == Init /\ [][Next]_vars

\* The values handed to the calls of the type line whose calls include has_*.
FrameSupertypeSample == {"Legendary", "Snow"}

FrameTypeSample == {"Artifact", "Creature"}

FrameSubtypeSample == { <<"Creature", "Human">>, <<"Artifact", "Equipment">> }

NextFrame ==
    \/ \E x \in FrameSupertypeSample : Call_add_supertype(x)
    \/ \E x \in FrameTypeSample : Call_add_type(x)
    \/ \E x \in FrameSubtypeSample : Call_add_subtype(x)
    \/ \E x \in FrameSupertypeSample : Call_remove_supertype(x)
    \/ \E x \in FrameTypeSample : Call_remove_type(x)
    \/ \E x \in FrameSubtypeSample : Call_remove_subtype(x)
    \/ \E x \in FrameSupertypeSample : Call_has_supertype(x)
    \/ \E x \in FrameTypeSample : Call_has_type(x)
    \/ \E x \in FrameSubtypeSample : Call_has_subtype(x)
    \/ Call_is_valid
    \/ Call_supertypes_iter
    \/ Call_types_iter
    \/ Call_subtypes_iter
    \/ Call_to_string

\* A type line and every call that reads or changes its collections.
SpecFrame == Init /\ [][NextFrame]_vars

\* The parser on an arbitrary input text.
InitParse ==
    /\ supertypes = new.supertypes
    /\ types = new.types
    /\ subtypes = new.subtypes
    /\ inserted = new
    /\ last = Called("new", FALSE)
    /\ ret = None
    /\ text \in {Some(s) : s \in InputTexts}
    /\ parsed = None
    /\ other_line = new
    /\ NoColors

NextParse == Call_from_str

SpecParse == InitParse /\ [][NextParse]_vars

\* valid_for on every subtype and type of the vocabularies: the type lines
\* with one type and one subtype.
InitValidFor ==
    /\ supertypes = <<>>
    /\ \E t \in Type : types = <<t>>
    /\ \E s \in Subtype : subtypes = <<s>>
    /\ inserted = Self
    /\ last = Called("add_subtype", FALSE)
    /\ ret = None
    /\ text = None
    /\ parsed = None
    /\ other_line = new
    /\ NoColors

NextValidFor == Call_valid_for \/ Call_is_valid

SpecValidFor == InitValidFor /\ [][NextValidFor]_vars

---------------------------------------------------------------------------
(* The state machine: one colour identity and the calls made on it, and    *)
(* the calls of Color::color_pie_order                                     *)

\* A call made with the argument arg.
CalledWith(op, arg) == [op |-> op, present |-> FALSE, arg |-> arg]

\* The sequences of colours of length n.
RECURSIVE ColorsOfLen(_)
ColorsOfLen(n) ==
    IF n = 0 THEN {<<>>}
    ELSE {Append(s, c) : s \in ColorsOfLen(n - 1), c \in Color}

\* The history of the calls add(iter[1]), add(iter[2]), ...
RECURSIVE HistOf(_)
HistOf(iter) ==
    IF Len(iter) = 0 THEN <<>>
    ELSE LET c == iter[Len(iter)] IN
         HistAdd(HistDel(HistOf(SubSeq(iter, 1, Len(iter) - 1)), c), c)

\* A &mut self call of the colour identity: it becomes id.
ColorMutated(id, hist, op, arg) ==
    /\ identity' = id
    /\ added' = hist
    /\ last' = CalledWith(op, arg)
    /\ ret' = None
    /\ text' = None
    /\ UNCHANGED typeLineVars
    /\ UNCHANGED <<cost, other_cost>>

\* A &self call of the colour identity, or a call of an associated function,
\* returning v.
ColorReturned(op, arg, v) ==
    /\ last' = CalledWith(op, arg)
    /\ ret' = Some(v)
    /\ text' = None
    /\ UNCHANGED typeLineVars
    /\ UNCHANGED colorVars

InitColor ==
    /\ supertypes = new.supertypes
    /\ types = new.types
    /\ subtypes = new.subtypes
    /\ inserted = new
    /\ last = CalledWith("new", <<>>)
    /\ ret = None
    /\ text = None
    /\ parsed = None
    /\ other_line = new
    /\ NoColors

Call_add(color) ==
    ColorMutated(add(identity, color), HistAdd(HistDel(added, color), color), "add", color)

Call_remove(color) ==
    ColorMutated(remove(identity, color), HistDel(added, color), "remove", color)

\* let identity = iter.collect::<ColorIdentity>()
Call_ColorIdentity_from_iter(iter) ==
    ColorMutated(ColorIdentity_from_iter(iter), HistOf(iter), "from_iter", iter)

Call_has(color) == ColorReturned("has", color, has(identity, color))

Call_is_colorless == ColorReturned("is_colorless", <<>>, is_colorless(identity))

Call_colors == ColorReturned("colors", <<>>, colors(identity))

Call_ColorIdentity_to_string ==
    /\ last' = CalledWith("to_string", <<>>)
    /\ text' = Some(ColorIdentity_to_string(identity))
    /\ ret' = None
    /\ UNCHANGED typeLineVars
    /\ UNCHANGED colorVars

Call_color_pie_order(color1, color2) ==
    ColorReturned("color_pie_order", <<color1, color2>>, color_pie_order(color1, color2))

NextColor ==
    \/ \E c \in Color : Call_add(c)
    \/ \E c \in Color : Call_remove(c)
    \/ \E n \in 0..MaxIter : \E iter \in ColorsOfLen(n) : Call_ColorIdentity_from_iter(iter)
    \/ \E c \in Color : Call_has(c)
    \/ Call_is_colorless
    \/ Call_colors
    \/ Call_ColorIdentity_to_string
    \/ \E c1, c2 \in Color : Call_color_pie_order(c1, c2)

\* A colour identity and the calls made on it.
SpecColor == InitColor /\ [][NextColor]_vars

---------------------------------------------------------------------------
(* The state machines of the mana symbols and the mana costs *)

\* Every symbol with a Generic amount of at most MaxGeneric.
ManaSymbols ==
    {Generic(n) : n \in 0..MaxGeneric}
    \cup {Colored(c) : c \in Color} \cup {Colorless, Variable, Snow}
    \cup {Hybrid(c1, c2) : c1 \in Color, c2 \in Color}
    \cup {MonoHybrid(c) : c \in Color} \cup {Phyrexian(c) : c \in Color}

\* The symbols of the costs that are rendered, evaluated and permuted.
ManaSample ==
    {Generic(5), Colorless, Colored("Green"), Hybrid("Black", "White"), MonoHybrid("Red")}

\* The symbols of the costs that are compared with each other.
PairSample ==
    {Generic(0), Generic(2), Generic(3), Generic(5), Colored("White"), Colorless,
     Variable,
     Hybrid("Black", "White"), Hybrid("White", "Black"), MonoHybrid("White"),
     Phyrexian("White"), Snow}

\* The sequences of n symbols of S.
RECURSIVE SymbolsOfLen(_, _)
SymbolsOfLen(S, n) ==
    IF n = 0 THEN {<<>>}
    ELSE {Append(s, x) : s \in SymbolsOfLen(S, n - 1), x \in S}

CostsUpTo(S, n) == UNION {SymbolsOfLen(S, k) : k \in 0..n}

\* The permutations of a sequence.
RECURSIVE PermutationsOf(_)
PermutationsOf(s) ==
    IF Len(s) = 0 THEN {<<>>}
    ELSE UNION { { <<s[i]>> \o t :
                     t \in PermutationsOf(SubSeq(s, 1, i - 1) \o SubSeq(s, i + 1, Len(s))) } :
                 i \in DOMAIN s }

\* A call on the cost or on one of its symbols, returning v.
ManaReturned(op, arg, v) ==
    /\ last' = CalledWith(op, arg)
    /\ ret' = Some(v)
    /\ text' = None
    /\ UNCHANGED typeLineVars
    /\ UNCHANGED colorVars

\* A call on the cost or on one of its symbols, rendering s.
ManaRendered(op, arg, s) ==
    /\ last' = CalledWith(op, arg)
    /\ ret' = None
    /\ text' = Some(s)
    /\ UNCHANGED typeLineVars
    /\ UNCHANGED colorVars

\* The state after ManaCost::from_iter(iter) and ManaCost::from_iter(iter2).
ManaCostBuilt(iter, iter2) ==
    /\ supertypes = new.supertypes
    /\ types = new.types
    /\ subtypes = new.subtypes
    /\ inserted = new
    /\ last = CalledWith("from_iter", <<>>)
    /\ ret = None
    /\ text = None
    /\ parsed = None
    /\ other_line = new
    /\ identity = ColorIdentity_new
    /\ added = <<>>
    /\ cost = ManaCost_from_iter(iter)
    /\ other_cost = ManaCost_from_iter(iter2)

\* self.symbols[i].converted_mana_cost()
Call_ManaSymbol_converted_mana_cost(i) ==
    ManaReturned("ManaSymbol::converted_mana_cost", i,
                 ManaSymbol_converted_mana_cost(cost[i]))

\* self.symbols[i].to_string(), magic crate
Call_ManaSymbol_to_string(i) ==
    ManaRendered("ManaSymbol::to_string", i, ManaSymbol_to_string(cost[i]))

\* self.symbols[i].to_string(), magic_core crate
Call_core_ManaSymbol_to_string(i) ==
    ManaRendered("core::ManaSymbol::to_string", i, core_ManaSymbol_to_string(cost[i]))

\* let cost = ManaCost::from_iter(vec![ManaSymbol::hybrid(color1, color2)])
Call_hybrid(color1, color2) ==
    /\ cost' = ManaCost_from_iter(<<hybrid(color1, color2)>>)
    /\ last' = CalledWith("hybrid", <<color1, color2>>)
    /\ ret' = None
    /\ text' = None
    /\ UNCHANGED typeLineVars
    /\ UNCHANGED <<identity, added, other_cost>>

Call_ManaCost_converted_mana_cost ==
    ManaReturned("ManaCost::converted_mana_cost", "self", ManaCost_converted_mana_cost(cost))

Call_ManaCost_to_string ==
    ManaRendered("ManaCost::to_string", "self", ManaCost_to_string(cost))

Call_core_ManaCost_to_string ==
    ManaRendered("core::ManaCost::to_string", "self", core_ManaCost_to_string(cost))

\* other.converted_mana_cost()
Call_other_converted_mana_cost ==
    ManaReturned("ManaCost::converted_mana_cost", "other", ManaCost_converted_mana_cost(other_cost))

\* other.to_string(), magic crate
Call_other_to_string ==
    ManaRendered("ManaCost::to_string", "other", ManaCost_to_string(other_cost))

\* self == other
Call_ManaCost_eq == ManaReturned("ManaCost::eq", <<>>, ManaCost_eq(cost, other_cost))

\* One mana symbol, whichever way it was built, and the calls made on it.
InitSymbol == \E symbol \in ManaSymbols : ManaCostBuilt(<<symbol>>, <<>>)

NextSymbol ==
    \/ \E c1, c2 \in Color : Call_hybrid(c1, c2)
    \/ \E i \in DOMAIN cost : Call_ManaSymbol_converted_mana_cost(i)
    \/ \E i \in DOMAIN cost : Call_ManaSymbol_to_string(i)
    \/ \E i \in DOMAIN cost : Call_core_ManaSymbol_to_string(i)

SpecSymbol == InitSymbol /\ [][NextSymbol]_vars

\* A mana cost and a second one built from the same symbols in any order,
\* and the calls made on them.
InitMana ==
    \E iter \in CostsUpTo(ManaSample, MaxSymbols) :
        \E iter2 \in PermutationsOf(iter) : ManaCostBuilt(iter, iter2)

NextMana ==
    \/ Call_ManaCost_converted_mana_cost
    \/ Call_ManaCost_to_string
    \/ Call_core_ManaCost_to_string
    \/ Call_other_converted_mana_cost
    \/ Call_other_to_string
    \/ Call_ManaCost_eq

SpecMana == InitMana /\ [][NextMana]_vars

\* Two mana costs compared with each other.
InitManaPair ==
    \E iter, iter2 \in CostsUpTo(PairSample, MaxPairSymbols) : ManaCostBuilt(iter, iter2)

NextManaPair == Call_ManaCost_eq

SpecManaPair == InitManaPair /\ [][NextManaPair]_vars

\* A mana cost holding Hybrid(a, b) built directly, and the cost that holds
\* Hybrid(b, a) in its place, and the calls made on them.
InitHybridFlip ==
    \E a, b \in Color :
        /\ a # b
        /\ \E p, q \in CostsUpTo(ManaSample, MaxAround) :
               ManaCostBuilt(p \o <<Hybrid(a, b)>> \o q, p \o <<Hybrid(b, a)>> \o q)

NextHybridFlip ==
    \/ Call_ManaCost_eq
    \/ Call_ManaCost_to_string
    \/ Call_other_to_string

SpecHybridFlip == InitHybridFlip /\ [][NextHybridFlip]_vars

\* The values the iterators of the two type lines are drawn from.
PairSupertypeSample == {"Legendary", "Snow"}

PairTypeSample == {"Artifact", "Creature", "Plane"}

PairSubtypeSample ==
    { <<"Creature", "Human">>, <<"Artifact", "Equipment">>, <<"Plane", "Phyrexia">> }

ItersUpTo(S, n) == UNION {[1..k -> S] : k \in 0..n}

\* A type line built by from_iters, and a second one built from the same
\* values in any order, and the calls made on them.
InitTypeLinePair ==
    \E sup \in ItersUpTo(PairSupertypeSample, MaxPairParts),
       typ \in ItersUpTo(PairTypeSample, MaxPairParts),
       sub \in ItersUpTo(PairSubtypeSample, MaxPairParts) :
        \E sup2 \in PermutationsOf(sup), typ2 \in PermutationsOf(typ),
           sub2 \in PermutationsOf(sub) :
            /\ supertypes = from_iters(sup, typ, sub).supertypes
            /\ types = from_iters(sup, typ, sub).types
            /\ subtypes = from_iters(sup, typ, sub).subtypes
            /\ inserted = Self
            /\ other_line = from_iters(sup2, typ2, sub2)
            /\ last = Called("from_iters", FALSE)
            /\ ret = None
            /\ text = None
            /\ parsed = None
            /\ NoColors

\* self == other
Call_TypeLine_eq == Returned("TypeLine::eq", TypeLineEq(Self, other_line))

\* let s = other.to_string()
Call_other_line_to_string ==
    /\ last' = Called("other.to_string", FALSE)
    /\ text' = Some(to_string(other_line))
    /\ ret' = None
    /\ parsed' = None
    /\ UNCHANGED <<supertypes, types, subtypes, inserted, other_line>>
    /\ UNCHANGED colorVars

NextTypeLinePair ==
    \/ Call_TypeLine_eq
    \/ Call_to_string
    \/ Call_other_line_to_string

SpecTypeLinePair == InitTypeLinePair /\ [][NextTypeLinePair]_vars

---------------------------------------------------------------------------
(* The claims *)

\* C1: a type line built by add_* calls renders to a text that parses, and
\* parses to a type line equal to it (equality of TypeLine values).  Every
\* duplicate-free type line is reached by add_* calls alone, so the calls that
\* led to the state do not matter here.
C1_RoundTrip ==
    last.op = "from_str" /\ text = Some(to_string(Self)) =>
        /\ parsed[1].tag = "Ok"
        /\ TypeLineEq(parsed[1].line, Self)

\* C2: each *_iter call yields the elements present in the order of their
\* insertion.
C2_IterInsertionOrder ==
    /\ last.op = "supertypes_iter" => ret[1] = inserted.supertypes
    /\ last.op = "types_iter" => ret[1] = inserted.types
    /\ last.op = "subtypes_iter" => ret[1] = inserted.subtypes

NoDuplicates(s) == \A i, j \in DOMAIN s : s[i] = s[j] => i = j

\* The type line after a step.
SelfNext == [supertypes |-> supertypes', types |-> types', subtypes |-> subtypes']

\* C3: add_* has set semantics.  Adding an element that is present leaves the
\* collection as it is (length, order, the element's position); adding an
\* absent element appends it at the end; after add_*(x), has_*(x) is true; and
\* no collection ever holds an element twice.
C3_AddSetSemantics ==
    [][ /\ \A x \in SupertypeSample : Call_add_supertype(x) =>
               /\ x \in Range(supertypes) => supertypes' = supertypes
               /\ x \notin Range(supertypes) => supertypes' = supertypes \o <<x>>
               /\ has_supertype(SelfNext, x)
        /\ \A x \in TypeSample : Call_add_type(x) =>
               /\ x \in Range(types) => types' = types
               /\ x \notin Range(types) => types' = types \o <<x>>
               /\ has_type(SelfNext, x)
        /\ \A x \in SubtypeSample : Call_add_subtype(x) =>
               /\ x \in Range(subtypes) => subtypes' = subtypes
               /\ x \notin Range(subtypes) => subtypes' = subtypes \o <<x>>
               /\ has_subtype(SelfNext, x)
        /\ NoDuplicates(supertypes') /\ NoDuplicates(types') /\ NoDuplicates(subtypes')
      ]_vars

\* C3 witness: an element already present, and not the last one, was added again.
C3_AddedAgain ==
    /\ last.op = "add_type" /\ last.present
    /\ Len(types) >= 2 /\ Len(subtypes) >= 1

\* C4: remove_*(x) removes x when present and changes nothing when absent:
\* afterwards has_*(x) is false and every other element is present exactly
\* when it was before; the call returns in both cases.
C4_RemoveSemantics ==
    [][ /\ \A x \in SupertypeSample : Call_remove_supertype(x) =>
               /\ ~has_supertype(SelfNext, x)
               /\ \A y \in Supertype \ {x} : has_supertype(SelfNext, y) <=> has_supertype(Self, y)
               /\ x \notin Range(supertypes) => supertypes' = supertypes
        /\ \A x \in TypeSample : Call_remove_type(x) =>
               /\ ~has_type(SelfNext, x)
               /\ \A y \in Type \ {x} : has_type(SelfNext, y) <=> has_type(Self, y)
               /\ x \notin Range(types) => types' = types
        /\ \A x \in SubtypeSample : Call_remove_subtype(x) =>
               /\ ~has_subtype(SelfNext, x)
               /\ \A y \in SubtypeSample \ {x} : has_subtype(SelfNext, y) <=> has_subtype(Self, y)
               /\ x \notin Range(subtypes) => subtypes' = subtypes
      ]_vars

\* C4 witness: an element was removed from among others.
C4_RemovedPresent ==
    /\ last.op = "remove_subtype" /\ last.present
    /\ Len(subtypes) >= 2

\* The compatibility table: the pairs <<subtype category, type>>.
CompatibilityTable ==
    { <<"Artifact", "Artifact">>, <<"Enchantment", "Enchantment">>, <<"Land", "Land">>,
      <<"Planeswalker", "Planeswalker">>, <<"Spell", "Instant">>, <<"Spell", "Sorcery">>,
      <<"Creature", "Creature">>, <<"Creature", "Tribal">>, <<"Plane", "Plane">> }

\* C5: is_valid() returns true exactly when there is a type and every subtype
\* present is valid for some type present; with a type and no subtype it is
\* true, without a type it is false whatever the subtypes.
C5_IsValidIff ==
    last.op = "is_valid" =>
        /\ ret[1] <=> /\ types # <<>>
                      /\ \A s \in Range(subtypes) :
                             \E t \in Range(types) : <<s[1], t>> \in CompatibilityTable
        /\ types # <<>> /\ subtypes = <<>> => ret[1]
        /\ types = <<>> => ~ret[1]

\* C5 witness: is_valid returned true for two subtypes that different types
\* make valid.
C5_ValidByDifferentTypes ==
    /\ last.op = "is_valid" /\ ret = <<TRUE>>
    /\ Len(types) >= 2 /\ Len(subtypes) >= 2
    /\ \A t \in Range(types) : \E s \in Range(subtypes) : <<s[1], t>> \notin CompatibilityTable

\* C6: valid_for(s, t) is true exactly for the pairs of the compatibility
\* table, over every subtype and each of the 13 types; the type line with type
\* Artifact and subtype Human is not valid.
C6_ValidForTable ==
    /\ last.op = "valid_for" =>
           (ret[1] <=> <<subtypes[1][1], types[1]>> \in CompatibilityTable)
    /\ last.op = "is_valid" /\ types = <<"Artifact">> /\ subtypes = <<<<"Creature", "Human">>>> =>
           ret = <<FALSE>>

\* C6 witness: valid_for returned true for a creature subtype and Tribal.
C6_CreatureSubtypeOfTribal ==
    /\ last.op = "valid_for" /\ ret = <<TRUE>>
    /\ types = <<"Tribal">> /\ subtypes = <<<<"Creature", "Human">>>>

\* The text a type line renders to when its collections are listed in the
\* orders given by line: the names, then an em dash and the subtype names if
\* there is a subtype, with one space between any two parts.
RECURSIVE SpaceSeparated(_)
SpaceSeparated(names) ==
    IF names = <<>> THEN <<>>
    ELSE IF Len(names) = 1 THEN names[1]
    ELSE names[1] \o <<SP>> \o SpaceSeparated(Tail(names))

Rendering(line) ==
    SpaceSeparated(
        [i \in DOMAIN line.supertypes |-> VariantName(line.supertypes[i])]
            \o [i \in DOMAIN line.types |-> VariantName(line.types[i])]
            \o (IF line.subtypes = <<>> THEN <<>> ELSE <<<<EM_DASH>>>>)
            \o [i \in DOMAIN line.subtypes |-> VariantName(line.subtypes[i][2])])

\* C7: to_string emits the supertypes, the types and, after one em dash if
\* there is any, the subtypes, each collection in insertion order, joined by
\* single spaces with none leading or trailing.
C7_RenderInsertionOrder ==
    last.op = "to_string" => text[1] = Rendering(inserted)

\* The names of the vocabularies, as texts.
SupertypeNames == {VariantName(v) : v \in Supertype}
TypeNames == {VariantName(v) : v \in Type}
SubtypeNames == {VariantName(sub[2]) : sub \in Subtype}

\* The segments of a text around its em dashes, and their tokens.
HasDash(s) == \E i \in DOMAIN s : s[i] = EM_DASH
PreTokens(s) == SplitWhitespace(Split(s)[1])
PostTokens(s) == SplitWhitespace(Split(s)[2])

\* toks is supertype* type*, with at least minTypes types.
SupertypesThenTypes(toks, minTypes) ==
    \E k \in 0..(Len(toks) - minTypes) :
        /\ \A i \in 1..k : <<toks[i]>> \in SupertypeNames
        /\ \A i \in (k + 1)..Len(toks) : <<toks[i]>> \in TypeNames

\* The grammar supertype* type+ ("U+2014" subtype+)?
InGrammar(s) ==
    /\ Len(Split(s)) <= 2
    /\ SupertypesThenTypes(PreTokens(s), 1)
    /\ HasDash(s) =>
           \/ Trim(Split(s)[2]) \in SubtypeNames
           \/ /\ PostTokens(s) # <<>>
              /\ \A i \in DOMAIN PostTokens(s) : <<PostTokens(s)[i]>> \in SubtypeNames

\* C8 as claimed: parse returns Ok exactly for the texts of the grammar
\* supertype* type+ ("U+2014" subtype+)?
C8_AcceptsExactlyGrammar ==
    last.op = "from_str" => (parsed[1].tag = "Ok" <=> InGrammar(text[1]))

\* C8 as amended: parse returns Ok exactly when the tokens before the first
\* em dash are supertype* type* (no type is needed) and, if there is an em
\* dash, the text between the first and the second em dash is, trimmed, one
\* subtype name or consists of zero or more one-word subtype names.
C8_AcceptedTexts ==
    last.op = "from_str" =>
        (parsed[1].tag = "Ok" <=>
            /\ SupertypesThenTypes(PreTokens(text[1]), 0)
            /\ HasDash(text[1]) =>
                   \/ Trim(Split(text[1])[2]) \in SubtypeNames
                   \/ \A i \in DOMAIN PostTokens(text[1]) :
                          <<PostTokens(text[1])[i]>> \in SubtypeNames)

\* C8 witness: a two-word subtype name after the em dash was accepted.
C8_TwoWordSubtypeAccepted ==
    /\ last.op = "from_str"
    /\ text = Some(<<"Creature", EM_DASH, "New", SP, "Phyrexia">>)
    /\ parsed[1].tag = "Ok"
    /\ parsed[1].line.subtypes = <<<<"Plane", "NewPhyrexia">>>>

\* The first token of toks at which toks stops being supertype* type*, if any.
FirstOutOfPlace(toks) ==
    IF SupertypesThenTypes(toks, 0) THEN None
    ELSE Some(toks[CHOOSE i \in DOMAIN toks :
                       /\ ~SupertypesThenTypes(SubSeq(toks, 1, i), 0)
                       /\ SupertypesThenTypes(SubSeq(toks, 1, i - 1), 0)])

\* The first token of toks that is no subtype name, if any.
FirstNonSubtype(toks) ==
    IF \A i \in DOMAIN toks : <<toks[i]>> \in SubtypeNames THEN None
    ELSE Some(toks[CHOOSE i \in DOMAIN toks :
                       /\ <<toks[i]>> \notin SubtypeNames
                       /\ \A j \in 1..(i - 1) : <<toks[j]>> \in SubtypeNames])

\* C9: parse returns Ok or Err(ExtraParts(token)), never NotAnEmDash and never
\* a panic; the token is the first one of its segment that cannot be
\* classified at its place: before the em dash the first token at which the
\* tokens stop being supertype* type*, else after it the first token that is
\* no subtype name.  (from_str recurses over the positions of a finite token
\* list, so it ends on every input.)
C9_OkOrExtraParts ==
    last.op = "from_str" =>
        /\ parsed[1].tag \in {"Ok", "Err"}
        /\ parsed[1].tag = "Err" =>
               /\ parsed[1].variant = "ExtraParts"
               /\ Some(parsed[1].token) =
                      IF IsSome(FirstOutOfPlace(PreTokens(text[1])))
                      THEN FirstOutOfPlace(PreTokens(text[1]))
                      ELSE FirstNonSubtype(PostTokens(text[1]))

\* C9 witness: the error carries the second token after the em dash.
C9_SecondSubtypeTokenRejected ==
    /\ last.op = "from_str"
    /\ text = Some(<<EM_DASH, "Human", SP, "New">>)
    /\ parsed = Some([tag |-> "Err", variant |-> "ExtraParts", token |-> "New"])

\* C10: parse does not look at validity: when the tokens before the em dash
\* are one or more type names and the tokens after it are subtype names,
\* parse returns Ok with exactly those types and subtypes, compatible or not.
C10_NoValidityCheck ==
    last.op = "from_str"
        /\ PreTokens(text[1]) # <<>>
        /\ (\A i \in DOMAIN PreTokens(text[1]) : <<PreTokens(text[1])[i]>> \in TypeNames)
        /\ (HasDash(text[1]) =>
               \A i \in DOMAIN PostTokens(text[1]) : <<PostTokens(text[1])[i]>> \in SubtypeNames)
    => /\ parsed[1].tag = "Ok"
       /\ {VariantName(t) : t \in Range(parsed[1].line.types)}
              = {<<w>> : w \in Range(PreTokens(text[1]))}
       /\ {VariantName(sub[2]) : sub \in Range(parsed[1].line.subtypes)}
              = IF HasDash(text[1]) THEN {<<w>> : w \in Range(PostTokens(text[1]))} ELSE {}

\* C10 witness: "Artifact U+2014 Human" parsed to a type line that is not valid.
C10_InvalidLineParsed ==
    /\ last.op = "from_str"
    /\ text = Some(<<"Artifact", SP, EM_DASH, SP, "Human">>)
    /\ parsed[1].tag = "Ok"
    /\ ~is_valid(parsed[1].line)

\* C11: color_pie_order is symmetric: for every two distinct colours a and b,
\* the call made with (a, b) returns the pair the call made with (b, a)
\* returns.
C11_PieOrderSymmetric ==
    (last.op = "color_pie_order" /\ last.arg[1] # last.arg[2]) =>
        ret = Some(color_pie_order(last.arg[2], last.arg[1]))

\* color_pie_order(Green, White) has returned (Green, White), the pair
\* color_pie_order(White, Green) returns.
C11_GreenWhiteBothWays ==
    /\ last.op = "color_pie_order"
    /\ last.arg = <<"Green", "White">>
    /\ ret = Some(<<"Green", "White">>)
    /\ color_pie_order("White", "Green") = <<"Green", "White">>

\* The ten canonical pairs.
CanonicalPairs ==
    { <<"White", "Blue">>, <<"White", "Black">>, <<"Blue", "Black">>, <<"Blue", "Red">>,
      <<"Black", "Red">>, <<"Black", "Green">>, <<"Red", "Green">>, <<"Red", "White">>,
      <<"Green", "White">>, <<"Green", "Blue">> }

\* C12: for two distinct colours, lo the one of lower and hi the one of higher
\* ordinal, color_pie_order returns (hi, lo) when the ordinals differ by more
\* than 2 and (lo, hi) otherwise; the pair returned is one of the ten canonical
\* pairs and holds exactly the two colours given.
C12_PieOrderTable ==
    (last.op = "color_pie_order" /\ last.arg[1] # last.arg[2]) =>
        LET a == last.arg[1]
            b == last.arg[2]
            lo == IF as_u8(a) < as_u8(b) THEN a ELSE b
            hi == IF as_u8(a) < as_u8(b) THEN b ELSE a
        IN /\ ret = Some(IF as_u8(hi) - as_u8(lo) > 2 THEN <<hi, lo>> ELSE <<lo, hi>>)
           /\ ret[1] \in CanonicalPairs
           /\ {ret[1][1], ret[1][2]} = {a, b}

\* color_pie_order(White, Red), whose ordinals differ by 3, has returned
\* (Red, White).
C12_WhiteRedReversed ==
    /\ last.op = "color_pie_order"
    /\ last.arg = <<"White", "Red">>
    /\ ret = Some(<<"Red", "White">>)

\* C19: in every state of a colour identity, has(c) is true exactly for the
\* colours c whose last add / remove call was add(c), and is_colorless() is
\* true exactly when there is no such colour; the has and is_colorless calls
\* return these values.  The history `added` changes, at add(c) and remove(c),
\* for the colour c alone and holds the same colours after one call as after
\* two, so the equivalence holding in every state says that a call changes
\* no other colour and that a repeated call changes nothing.
C19_HasIffLastAdded ==
    /\ \A c \in Color : has(identity, c) <=> c \in Range(added)
    /\ is_colorless(identity) <=> added = <<>>
    /\ last.op = "has" => ret = Some(last.arg \in Range(added))
    /\ last.op = "is_colorless" => ret = Some(added = <<>>)

\* remove(Blue) has been called on an identity that keeps White and Green.
C19_RemovedBlueKeptOthers ==
    /\ last.op = "remove"
    /\ last.arg = "Blue"
    /\ added = <<"Green", "White">>
    /\ has(identity, "White") /\ has(identity, "Green") /\ ~has(identity, "Blue")

\* The colours of S in ordinal order.
InOrdinalOrder(S) ==
    CHOOSE s \in [1..Cardinality(S) -> S] :
        \A i, j \in 1..Cardinality(S) : i < j => as_u8(s[i]) < as_u8(s[j])

\* The text of a colour identity that holds the colours S.
IdentityText(S) ==
    IF S = {} THEN <<"C">>
    ELSE [i \in 1..Cardinality(S) |-> initial(InOrdinalOrder(S)[i])]

\* C20: a colour identity renders "C" when it holds no colour and otherwise
\* the initials of its colours in the ordinal order White, Blue, Black, Red,
\* Green, whatever the order the colours were added in (the order an iterator
\* collected into it yields them); colors() yields the colours in that order;
\* White and Green render "WG", Blue, Black and Red render "UBR".
C20_RendersOrdinalOrder ==
    /\ last.op = "to_string" => text = Some(IdentityText(Range(added)))
    /\ last.op = "colors" => ret = Some(InOrdinalOrder(Range(added)))
    /\ last.op = "from_iter" =>
           ColorIdentity_to_string(identity) = IdentityText(Range(last.arg))
    /\ Range(added) = {"White", "Green"} => ColorIdentity_to_string(identity) = <<"W", "G">>
    /\ Range(added) = {"Blue", "Black", "Red"} =>
           ColorIdentity_to_string(identity) = <<"U", "B", "R">>

\* to_string has rendered "WG" for the identity Green and then White were
\* added to.
C20_WhiteGreenRendered ==
    /\ last.op = "to_string"
    /\ added = <<"Green", "White">>
    /\ text = Some(<<"W", "G">>)

\* The number of symbols of the cost s that are in the set S.
CountOf(s, S) == Cardinality({i \in DOMAIN s : s[i] \in S})

\* The sum of the Generic amounts of the cost s.
RECURSIVE GenericTotal(_)
GenericTotal(s) ==
    IF Len(s) = 0 THEN 0
    ELSE GenericTotal(SubSeq(s, 1, Len(s) - 1))
         + (IF s[Len(s)].kind = "Generic" THEN s[Len(s)].n ELSE 0)

\* The seven aggregates of the costs a and b match.
SameAggregates(a, b) ==
    /\ GenericTotal(a) = GenericTotal(b)
    /\ CountOf(a, {Variable}) = CountOf(b, {Variable})
    /\ CountOf(a, {Snow}) = CountOf(b, {Snow})
    /\ CountOf(a, {Colorless}) = CountOf(b, {Colorless})
    /\ \A c \in Color : CountOf(a, {Colored(c)}) = CountOf(b, {Colored(c)})
    /\ \A c1, c2 \in Color :
           CountOf(a, {Hybrid(c1, c2), Hybrid(c2, c1)})
               = CountOf(b, {Hybrid(c1, c2), Hybrid(c2, c1)})
    /\ \A c \in Color : CountOf(a, {MonoHybrid(c)}) = CountOf(b, {MonoHybrid(c)})
    /\ \A c \in Color : CountOf(a, {Phyrexian(c)}) = CountOf(b, {Phyrexian(c)})

\* C13: two mana costs are equal exactly when their seven aggregates match:
\* the sum of the Generic amounts, the number of Variable symbols, the number
\* of Snow symbols, the count of each colour and of Colorless, the count of
\* each pair of colours among the Hybrid symbols whichever way round, the count
\* of each colour among the MonoHybrid symbols (counted apart from the Hybrid
\* symbols) and the count of each colour among the Phyrexian symbols.
C13_EqualIffAggregates ==
    last.op = "ManaCost::eq" => ret = Some(SameAggregates(cost, other_cost))

\* {2}{3} has been compared with {5} and found equal.
C13_TwoThreeEqualsFive ==
    /\ last.op = "ManaCost::eq"
    /\ cost = <<Generic(2), Generic(3)>>
    /\ other_cost = <<Generic(5)>>
    /\ ret = Some(TRUE)

\* b holds the symbols of a, each as often as a holds it.
IsPermutation(a, b) ==
    /\ Len(a) = Len(b)
    /\ \A i \in DOMAIN a : CountOf(a, {a[i]}) = CountOf(b, {a[i]})

\* C14: a mana cost is equal to every cost built from the same symbols in
\* another order.
C14_EqualToPermutation ==
    (last.op = "ManaCost::eq" /\ IsPermutation(cost, other_cost)) => ret = Some(TRUE)

\* {5}{C}{G}{B/W} has been compared with the cost of the same symbols in the
\* opposite order and found equal.
C14_ReversedCostEqual ==
    /\ last.op = "ManaCost::eq"
    /\ cost = <<Generic(5), Colorless, Colored("Green"), Hybrid("Black", "White")>>
    /\ other_cost = <<Hybrid("Black", "White"), Colored("Green"), Colorless, Generic(5)>>
    /\ ret = Some(TRUE)

\* The sum of the mana values of the symbols of the cost s.
RECURSIVE TotalValue(_)
TotalValue(s) ==
    IF Len(s) = 0 THEN 0
    ELSE TotalValue(SubSeq(s, 1, Len(s) - 1)) + ManaSymbol_converted_mana_cost(s[Len(s)])

\* C15: the mana value of a cost is the sum of the mana values of its symbols
\* and is the mana value of every cost built from the same symbols in another
\* order; the empty cost has mana value 0 and the cost Generic(5), Colorless,
\* Colored(Green), Hybrid(Black, White) has mana value 8.
C15_ManaValueAdditive ==
    /\ (last.op = "ManaCost::converted_mana_cost" /\ last.arg = "self") =>
           ret = Some(TotalValue(cost))
    /\ (last.op = "ManaCost::converted_mana_cost" /\ last.arg = "other"
            /\ IsPermutation(cost, other_cost)) =>
           ret = Some(TotalValue(cost))
    /\ (last.op = "ManaCost::converted_mana_cost" /\ last.arg = "self" /\ cost = <<>>) =>
           ret = Some(0)
    /\ (last.op = "ManaCost::converted_mana_cost" /\ last.arg = "self"
            /\ cost = <<Generic(5), Colorless, Colored("Green"), Hybrid("Black", "White")>>) =>
           ret = Some(8)

\* The mana value of a permutation of {5}{C}{G}{B/W} has been computed: 8.
C15_PermutedCostIsEight ==
    /\ last.op = "ManaCost::converted_mana_cost"
    /\ last.arg = "other"
    /\ cost = <<Generic(5), Colorless, Colored("Green"), Hybrid("Black", "White")>>
    /\ other_cost = <<Colorless, Hybrid("Black", "White"), Generic(5), Colored("Green")>>
    /\ ret = Some(8)

\* The mana value of each symbol, as the claim lists it.
ManaValueTable(symbol) ==
    CASE symbol.kind = "Generic" -> symbol.n
      [] symbol.kind \in {"Colored", "Colorless", "Hybrid", "Phyrexian", "Snow"} -> 1
      [] symbol.kind = "Variable" -> 0
      [] symbol.kind = "MonoHybrid" -> 2

\* C16: the mana value of a symbol is n for Generic(n), 1 for Colored,
\* Colorless, Hybrid, Phyrexian and Snow, 0 for Variable and 2 for MonoHybrid,
\* whatever the colours of the symbol.
C16_SymbolManaValue ==
    last.op = "ManaSymbol::converted_mana_cost" =>
        ret = Some(ManaValueTable(cost[last.arg]))

\* The mana value of MonoHybrid(Red) has been computed: 2.
C16_MonoHybridIsTwo ==
    /\ last.op = "ManaSymbol::converted_mana_cost"
    /\ cost[last.arg] = MonoHybrid("Red")
    /\ ret = Some(2)

\* The body of the rendering of each symbol, as the claim lists it.
BodyTable(symbol) ==
    CASE symbol.kind = "Generic"    -> Decimal(symbol.n)
      [] symbol.kind = "Colored"    -> <<initial(symbol.c1)>>
      [] symbol.kind = "Colorless"  -> <<"C">>
      [] symbol.kind = "Variable"   -> <<"X">>
      [] symbol.kind = "Hybrid"     ->
             LET pair == CHOOSE p \in CanonicalPairs \cup {<<c, c>> : c \in Color} :
                             {p[1], p[2]} = {symbol.c1, symbol.c2}
             IN <<initial(pair[1]), "/", initial(pair[2])>>
      [] symbol.kind = "MonoHybrid" -> <<initial(symbol.c1), "/", "2">>
      [] symbol.kind = "Phyrexian"  -> <<initial(symbol.c1), "/", "P">>
      [] symbol.kind = "Snow"       -> <<"S">>

\* C17: every mana symbol renders as "{" body "}" with body the decimal n for
\* Generic(n), the colour's initial for Colored, C for Colorless, X for
\* Variable, c/2 for MonoHybrid, c/P for Phyrexian, S for Snow and, for every
\* Hybrid symbol however it was built and whatever the order of its two
\* colours, the two initials separated by "/" in canonical color-pie order.
C17_SymbolRendering ==
    last.op \in {"ManaSymbol::to_string", "core::ManaSymbol::to_string"} =>
        text = Some(<<"{">> \o BodyTable(cost[last.arg]) \o <<"}">>)

\* The offset of the end of the i-th of the strings rs in their concatenation.
RECURSIVE EndOf(_, _)
EndOf(rs, i) == IF i = 0 THEN 0 ELSE EndOf(rs, i - 1) + Len(rs[i])

\* t is the strings rs one after the other, with nothing in between.
IsConcatenation(t, rs) ==
    /\ Len(t) = EndOf(rs, Len(rs))
    /\ \A i \in DOMAIN rs : SubSeq(t, EndOf(rs, i - 1) + 1, EndOf(rs, i)) = rs[i]

\* The cost to_string was last called on.
Rendered == IF last.arg = "other" THEN other_cost ELSE cost

\* C18: the rendering of a mana cost is the renderings of its symbols, in
\* insertion order, one after the other with no separator (in the magic crate
\* and in the magic_core crate, each with its rendering of a symbol); the
\* empty cost renders as the empty string.  (That equal costs may render
\* differently is the state C18_EqualCostsRenderDifferently.)
C18_CostRendering ==
    /\ last.op = "ManaCost::to_string" =>
           /\ IsConcatenation(text[1],
                  [i \in DOMAIN Rendered |-> ManaSymbol_to_string(Rendered[i])])
           /\ Rendered = <<>> => text = Some(<<>>)
    /\ last.op = "core::ManaCost::to_string" =>
           /\ IsConcatenation(text[1],
                  [i \in DOMAIN Rendered |-> core_ManaSymbol_to_string(Rendered[i])])
           /\ Rendered = <<>> => text = Some(<<>>)

\* {C}{5} has been rendered "{C}{5}"; it is equal to {5}{C}, which renders
\* "{5}{C}".
C18_EqualCostsRenderDifferently ==
    /\ last.op = "ManaCost::to_string"
    /\ last.arg = "other"
    /\ cost = <<Generic(5), Colorless>>
    /\ other_cost = <<Colorless, Generic(5)>>
    /\ ManaCost_eq(cost, other_cost)
    /\ text = Some(<<"{", "C", "}", "{", "5", "}">>)
    /\ ManaCost_to_string(cost) = <<"{", "5", "}", "{", "C", "}">>

\* C21: for all distinct colours a and b, the symbol ManaSymbol::hybrid(a, b)
\* builds holds exactly the pair color_pie_order(a, b), and is the symbol
\* hybrid(b, a) builds.
C21_HybridBuiltCanonical ==
    (last.op = "hybrid" /\ last.arg[1] # last.arg[2]) =>
        LET p == color_pie_order(last.arg[1], last.arg[2]) IN
        /\ cost = <<Hybrid(p[1], p[2])>>
        /\ <<cost[1].c1, cost[1].c2>> \in CanonicalPairs
        /\ cost[1] = hybrid(last.arg[2], last.arg[1])

\* hybrid(Black, White) has built the symbol Hybrid(White, Black).
C21_BlackWhiteBuiltWhiteBlack ==
    /\ last.op = "hybrid"
    /\ last.arg = <<"Black", "White">>
    /\ cost = <<Hybrid("White", "Black")>>

\* The number of tokens of toks, from position i on, that are one after the
\* other in Names.
RECURSIVE RunLength(_, _, _)
RunLength(toks, i, Names) ==
    IF i <= Len(toks) /\ <<toks[i]>> \in Names THEN 1 + RunLength(toks, i + 1, Names) ELSE 0

\* C22: of the white-space separated tokens before the first em dash, the
\* leading supertype names are taken as supertypes and the type names that
\* follow them as types; if a token remains, the parse fails with ExtraParts
\* of the first remaining token, whatever stands after the em dash; if none
\* remains, an error, if any, carries a token from after the em dash and a
\* success holds exactly those supertypes and types.  "Creature Legendary"
\* fails with ExtraParts("Legendary").
C22_PreDashTwoPhases ==
    last.op = "from_str" =>
        LET toks == PreTokens(text[1])
            k == RunLength(toks, 1, SupertypeNames)
            m == RunLength(toks, k + 1, TypeNames)
        IN  /\ k + m < Len(toks) =>
                parsed = Some(Err("ExtraParts", toks[k + m + 1]))
            /\ (k + m = Len(toks) /\ parsed[1].tag = "Err") =>
                /\ HasDash(text[1])
                /\ parsed[1].token \in Range(PostTokens(text[1]))
            /\ (k + m = Len(toks) /\ parsed[1].tag = "Ok") =>
                /\ {VariantName(v) : v \in Range(parsed[1].line.supertypes)}
                       = {<<toks[i]>> : i \in 1..k}
                /\ {VariantName(v) : v \in Range(parsed[1].line.types)}
                       = {<<toks[i]>> : i \in (k + 1)..(k + m)}
            /\ text[1] = <<"Creature", SP, "Legendary">> =>
                parsed = Some(Err("ExtraParts", "Legendary"))

\* "Creature LegendaryU+2014New" failed with ExtraParts("Legendary"), not
\* with the token after the em dash, which names nothing.
C22_FailedBeforeTheDash ==
    /\ last.op = "from_str"
    /\ text = Some(<<"Creature", SP, "Legendary", EM_DASH, "New">>)
    /\ parsed = Some(Err("ExtraParts", "Legendary"))

\* The pre dash block of the text s consumes every token before the em dash.
PreDashPasses(s) ==
    RunLength(PreTokens(s), 1, SupertypeNames)
        + RunLength(PreTokens(s), RunLength(PreTokens(s), 1, SupertypeNames) + 1, TypeNames)
    = Len(PreTokens(s))

\* C23: after an em dash, the whole trimmed remainder is first taken as one
\* subtype name, of one word or several, and gives that single subtype; only
\* if it is no subtype name is each white-space separated token taken as a
\* subtype, with ExtraParts of the first token that is no subtype name.  So
\* "Plane U+2014 Bolas's Meditation Realm" gives the one subtype of that name,
\* and a name of several words beside another token is not matched.
C23_PostDashWholeThenTokens ==
    /\ (last.op = "from_str" /\ PreDashPasses(text[1]) /\ HasDash(text[1])) =>
           LET rem == Trim(Split(text[1])[2])
               toks == PostTokens(text[1])
               n == RunLength(toks, 1, SubtypeNames)
           IN  IF rem \in SubtypeNames
               THEN /\ parsed[1].tag = "Ok"
                    /\ Len(parsed[1].line.subtypes) = 1
                    /\ VariantName(parsed[1].line.subtypes[1][2]) = rem
               ELSE IF n < Len(toks)
               THEN parsed = Some(Err("ExtraParts", toks[n + 1]))
               ELSE /\ parsed[1].tag = "Ok"
                    /\ {VariantName(sub[2]) : sub \in Range(parsed[1].line.subtypes)}
                           = {<<toks[i]>> : i \in DOMAIN toks}
    /\ from_str(<<"Plane", SP, EM_DASH, SP, "Bolas's", SP, "Meditation", SP, "Realm">>)
           = Ok([supertypes |-> <<>>, types |-> <<"Plane">>,
                 subtypes |-> <<<<"Plane", "BolassMeditationRealm">>>>])

\* "U+2014Human New Phyrexia" failed with ExtraParts("New"): the name
\* "New Phyrexia" was not matched beside "Human".
C23_TwoWordNameBesideAnother ==
    /\ last.op = "from_str"
    /\ text = Some(<<EM_DASH, "Human", SP, "New", SP, "Phyrexia">>)
    /\ parsed = Some(Err("ExtraParts", "New"))

\* The number of em dashes of the text s.
Dashes(s) == Cardinality({i \in DOMAIN s : s[i] = EM_DASH})

\* The text s up to its second em dash, without it.
BeforeSecondDash(s) ==
    SubSeq(s, 1, (CHOOSE k \in DOMAIN s :
                      s[k] = EM_DASH /\ Dashes(SubSeq(s, 1, k - 1)) = 1) - 1)

\* C25: a text of two or more em dashes parses to what its part before the
\* second em dash parses to: what follows the second em dash gives no subtype
\* and no error; no parse returns NotAnEmDash.
C25_AfterSecondDashIgnored ==
    last.op = "from_str" =>
        /\ Dashes(text[1]) >= 2 => parsed = Some(from_str(BeforeSecondDash(text[1])))
        /\ parsed[1].tag = "Err" => parsed[1].variant # "NotAnEmDash"

\* "CreatureU+2014HumanU+2014New" parsed to the type line of
\* "CreatureU+2014Human", though "New" names nothing.
C25_ThirdSegmentIgnored ==
    /\ last.op = "from_str"
    /\ text = Some(<<"Creature", EM_DASH, "Human", EM_DASH, "New">>)
    /\ parsed = Some(Ok([supertypes |-> <<>>, types |-> <<"Creature">>,
                         subtypes |-> <<<<"Creature", "Human">>>>]))

\* The costs self and other differ in the order of the two colours of one
\* hybrid symbol, and in nothing else.
OneHybridFlipped(self, other) ==
    \E i \in DOMAIN self :
        /\ self[i].kind = "Hybrid"
        /\ self[i].c1 # self[i].c2
        /\ other = [self EXCEPT ![i] = Hybrid(self[i].c2, self[i].c1)]

\* C24: two mana costs that differ only in the order of the colours of one
\* hybrid symbol, built directly, compare equal.
C24_HybridOrderIgnored ==
    (last.op = "ManaCost::eq" /\ OneHybridFlipped(cost, other_cost)) => ret = Some(TRUE)

\* {C}{R/U}{5} compared equal to {C}{U/R}{5}.
C24_RedBlueEqualsBlueRed ==
    /\ last.op = "ManaCost::eq"
    /\ cost = <<Colorless, Hybrid("Red", "Blue"), Generic(5)>>
    /\ other_cost = <<Colorless, Hybrid("Blue", "Red"), Generic(5)>>
    /\ ret = Some(TRUE)

\* The type lines a and b hold the same supertypes, types and subtypes.
SameContents(a, b) ==
    /\ Range(a.supertypes) = Range(b.supertypes)
    /\ Range(a.types) = Range(b.types)
    /\ Range(a.subtypes) = Range(b.subtypes)

\* C26: two type lines that hold the same supertypes, types and subtypes
\* are equal, whatever the order the values were inserted in.
C26_EqualityIgnoresOrder ==
    (last.op = "TypeLine::eq" /\ SameContents(Self, other_line)) => ret = Some(TRUE)

\* "Artifact Creature" compared equal to "Creature Artifact", two type
\* lines of different texts.
C26_EqualLinesOfDifferentTexts ==
    /\ last.op = "TypeLine::eq"
    /\ ret = Some(TRUE)
    /\ types = <<"Artifact", "Creature">>
    /\ other_line.types = <<"Creature", "Artifact">>
    /\ to_string(Self) # to_string(other_line)

\* C27: a call that takes a valid type line to an invalid one is
\* remove_type or add_subtype: add_type, remove_subtype, add_supertype and
\* remove_supertype, and the calls on &self, keep a valid type line valid.
C27_ValidityKept ==
    [][ (is_valid(Self) /\ ~is_valid(SelfNext)) =>
            last'.op \in {"remove_type", "add_subtype"} ]_vars

\* add_type put a second type beside the one a subtype held depends on, and
\* the type line is valid as it was (the type line before the call held the
\* same subtypes and one of these types, which the subtype is valid for).
C27_TypeAddedStillValid ==
    /\ last.op = "add_type"
    /\ ~last.present
    /\ types = <<"Creature", "Artifact">>
    /\ subtypes = <<<<"Creature", "Human">>>>
    /\ is_valid(Self)

\* remove_type took the Creature type from under a Human subtype: the type
\* line was valid and is not.
C27_TypeRemovedInvalid ==
    /\ last.op = "remove_type"
    /\ last.present
    /\ types = <<"Artifact">>
    /\ subtypes = <<<<"Creature", "Human">>>>
    /\ ~is_valid(Self)

\* C28: a call of add_* or remove_* changes the one collection it names and
\* leaves the two others as they are, values and order; has_*, *_iter,
\* is_valid and to_string change no collection.
C28_OtherCollectionsUntouched ==
    [][ /\ \A x \in FrameSupertypeSample :
               (Call_add_supertype(x) \/ Call_remove_supertype(x)) =>
                   (types' = types /\ subtypes' = subtypes)
        /\ \A x \in FrameTypeSample :
               (Call_add_type(x) \/ Call_remove_type(x)) =>
                   (supertypes' = supertypes /\ subtypes' = subtypes)
        /\ \A x \in FrameSubtypeSample :
               (Call_add_subtype(x) \/ Call_remove_subtype(x)) =>
                   (supertypes' = supertypes /\ types' = types)
        /\ ( \/ \E x \in FrameSupertypeSample : Call_has_supertype(x)
             \/ \E x \in FrameTypeSample : Call_has_type(x)
             \/ \E x \in FrameSubtypeSample : Call_has_subtype(x)
             \/ Call_supertypes_iter \/ Call_types_iter \/ Call_subtypes_iter
             \/ Call_is_valid \/ Call_to_string ) => SelfNext = Self ]_vars

\* remove_type took the one type of a type line and left its supertype and
\* its subtype.
C28_TypeRemovedSubtypeKept ==
    /\ last.op = "remove_type"
    /\ last.present
    /\ supertypes = <<"Legendary">>
    /\ types = <<>>
    /\ subtypes = <<<<"Creature", "Human">>>>

\* C29: the byte of a colour identity is in 0..31, so that is_colorless
\* (five or more trailing zeros) says the byte is 0 and says colors()
\* yields nothing; and no two bytes of 0..31 render as the same text.
C29_ByteBelowThirtyTwo ==
    /\ identity \in 0..31
    /\ (trailing_zeros(identity) >= 5) <=> (identity = 0)
    /\ is_colorless(identity) <=> (colors(identity) = <<>>)
    /\ last.op = "is_colorless" => ret = Some(identity = 0)
    /\ last.op = "colors" => ((ret = Some(<<>>)) <=> (identity = 0))
    /\ \A b \in 0..31 :
           b # identity => ColorIdentity_to_string(b) # ColorIdentity_to_string(identity)
    /\ last.op = "to_string" =>
           \A b \in 0..31 : b # identity => ColorIdentity_to_string(b) # text[1]

\* The identity of Green alone, the byte of four trailing zeros, is not
\* colourless.
C29_GreenAloneNotColorless ==
    /\ last.op = "is_colorless"
    /\ identity = 16
    /\ added = <<"Green">>
    /\ ret = Some(FALSE)

\* C30: two mana costs that compare equal have the same converted mana
\* cost, also when they differ by Generic(0) symbols or by the way a generic
\* total is split.
C30_EqualCostsSameManaValue ==
    (last.op = "ManaCost::eq" /\ ret = Some(TRUE)) =>
        ManaCost_converted_mana_cost(cost) = ManaCost_converted_mana_cost(other_cost)

\* {0}{5} compared equal to {2}{3}: both have the converted mana cost 5.
C30_ZeroFiveEqualsTwoThree ==
    /\ last.op = "ManaCost::eq"
    /\ ret = Some(TRUE)
    /\ cost = <<Generic(0), Generic(5)>>
    /\ other_cost = <<Generic(2), Generic(3)>>
    /\ ManaCost_converted_mana_cost(cost) = 5
    /\ ManaCost_converted_mana_cost(other_cost) = 5

\* {W} and {C} have the converted mana cost 1 and compared unequal.
C30_SameManaValueUnequal ==
    /\ last.op = "ManaCost::eq"
    /\ ret = Some(FALSE)
    /\ cost = <<Colored("White")>>
    /\ other_cost = <<Colorless>>
    /\ ManaCost_converted_mana_cost(cost) = ManaCost_converted_mana_cost(other_cost)

=============================================================================
